---- MODULE Spec2Model ----
(***************************************************************************)
(* Load planning of backend/app: the upload pipeline of main.py            *)
(* (compute_calculated_fields, apply_routing_filters) followed by          *)
(* optimizer_simple.naive_grouping: the per-group bin packer, the          *)
(* remainder processor and the cross-bucket fill passes.                   *)
(*                                                                         *)
(* Weights are pounds (integers), dates are whole days relative to the     *)
(* day of the run (0 is today), an absent value (None / NaN / NaT) is the  *)
(* empty sequence and a present value v is <<v>>.                          *)
(***************************************************************************)
EXTENDS Integers, Sequences, FiniteSets, TLC

\* ---------------------------------------------------------------- bounds
\* Largest number of order lines in an uploaded sheet.
MaxRows == 3

\* ------------------------------------------------------ program constants
texas_max_lbs == 52000
texas_min_lbs == 47000
other_max_lbs == 48000
other_min_lbs == 44000
max_remainder_iterations == 100
OverwidthInches == 96

weight_config ==
  [texas_max_lbs |-> texas_max_lbs, texas_min_lbs |-> texas_min_lbs,
   other_max_lbs |-> other_max_lbs, other_min_lbs |-> other_min_lbs]

NO_MULTI_STOP_CUSTOMERS ==
  {"Sabre Tubular Structures", "GamTex", "Cmcr Fort Worth", "Ozark Steel LLC",
   "Gachman Metals & Recycling Co", "Sabre", "Sabre - Kennedale",
   "Sabre Industries", "Sabre Southbridge Plate STP", "Petrosmith Equipment LP",
   "W&W AFCO STEEL", "Red Dot Corporation"}

\* ------------------------------------------------------------- helpers
None == <<>>
Some(v) == <<v>>
IsNone(o) == o = <<>>
Val(o) == o[1]

Min2(a, b) == IF a <= b THEN a ELSE b
Max2(a, b) == IF a >= b THEN a ELSE b

\* The sum of a sequence of numbers, by halves.
RECURSIVE SumSeq(_)
SumSeq(s) ==
  IF Len(s) = 0 THEN 0
  ELSE IF Len(s) = 1 THEN s[1]
  ELSE SumSeq(SubSeq(s, 1, Len(s) \div 2)) + SumSeq(SubSeq(s, Len(s) \div 2 + 1, Len(s)))

MapWeight(s) == [i \in 1..Len(s) |-> s[i].totalWeight]

MapPieces(s) == [i \in 1..Len(s) |-> s[i].piecesOnTransport]

\* Position of a string in the collation the sheet's values sort by
\* (pandas sorts object columns by Python string order).
StrOrd(s) ==
  CASE s = "Acme" -> 1 [] s = "Sabre" -> 2
    [] s = "OK" -> 1 [] s = "TX" -> 2
    [] s = "Dallas" -> 1 [] s = "Tulsa" -> 2
    [] s = "R1" -> 1 [] s = "Z1" -> 1
    [] OTHER -> 0

\* Sort position of an optional string: NaN sorts (and groups) last.
OptOrd(o) == IF IsNone(o) THEN 9 ELSE StrOrd(Val(o))

RECURSIVE LexLessEq(_, _)
LexLessEq(a, b) ==
  IF a = <<>> THEN TRUE
  ELSE IF a[1] < b[1] THEN TRUE
  ELSE IF a[1] > b[1] THEN FALSE
  ELSE LexLessEq(Tail(a), Tail(b))

\* ---------------------------------------------------------------- dates
\* A timestamp is a day and a timezone tag; pandas refuses to order a
\* tz-aware and a tz-naive timestamp (TypeError).
Timestamp(day, tz) == [day |-> day, tz |-> tz]
today_utc == Timestamp(0, "UTC")
today_naive == Timestamp(0, "naive")

\* a > b on timestamps: "True", "False" or "TypeError".
TimestampGT(a, b) ==
  IF a.tz # b.tz THEN "TypeError"
  ELSE IF a.day > b.day THEN "True" ELSE "False"

\* pd.to_datetime(col, errors="coerce", utc=True) on one cell.
to_datetime_utc(cell) ==
  IF IsNone(cell) THEN None ELSE Some(Timestamp(Val(cell).day, "UTC"))

\* Timestamp.isoformat(): the date text, followed by the offset "+00:00" when
\* the timestamp is tz-aware.
isoformat(cell) ==
  IF IsNone(cell) THEN None
  ELSE Some([date |-> Val(cell).day,
             offset |-> IF Val(cell).tz = "UTC" THEN "+00:00" ELSE ""])

\* pd.to_datetime(text, errors="coerce"): a text with an offset parses to a
\* tz-aware timestamp, a text without one to a tz-naive timestamp.
to_datetime_str(serial) ==
  Timestamp(serial.date, IF serial.offset = "+00:00" THEN "UTC" ELSE "naive")

\* ------------------------------------------------------- upload pipeline
is_texas(state) == state \in {"TX", "TEXAS"}

allows_multi_stop(customer) == customer \notin NO_MULTI_STOP_CUSTOMERS

\* excel_utils.compute_calculated_fields on one row: per-piece weight from
\* the ready columns as uploaded, dates to UTC, Is Late.
\* (Uploaded rows have RPcs >= 1 here, so the division is defined.)
compute_calculated_fields(r) ==
  LET latest == to_datetime_utc(r.LatestDue)
  IN [WeightPerPiece |-> r.ReadyWeight \div r.RPcs,
      IsLate |-> IF IsNone(latest) THEN FALSE
                 ELSE Val(latest).day < today_utc.day]
     @@ [r EXCEPT !.EarliestDue = to_datetime_utc(r.EarliestDue),
                  !.LatestDue = latest]

\* excel_utils.apply_routing_filters, step 1, on one row.
substitute_balance(r) ==
  IF r.yes_no = "yes"
  THEN [r EXCEPT !.RPcs = r.BPcs, !.ReadyWeight = r.BalanceWeight]
  ELSE r

\* excel_utils.apply_routing_filters, step 4: the row survives.
has_ready_pieces(r) == r.RPcs > 0

RECURSIVE apply_routing_filters(_)
apply_routing_filters(df) ==
  IF df = <<>> THEN <<>>
  ELSE LET r == substitute_balance(df[1])
       IN (IF has_ready_pieces(r) THEN <<r>> ELSE <<>>)
            \o apply_routing_filters(Tail(df))

RECURSIVE compute_calculated_fields_df(_)
compute_calculated_fields_df(df) ==
  IF df = <<>> THEN <<>>
  ELSE <<compute_calculated_fields(df[1])>> \o compute_calculated_fields_df(Tail(df))

\* excel_utils.build_priority_bucket.
build_priority_bucket(r) ==
  IF IsNone(r.LatestDue) THEN "WithinWindow"
  ELSE IF Val(r.LatestDue).day < today_utc.day THEN "Late"
  ELSE IF Val(r.LatestDue).day - today_utc.day <= 3 THEN "NearDue"
  ELSE "WithinWindow"

priority_order(bucket) ==
  CASE bucket = "Late" -> 0 [] bucket = "NearDue" -> 1
    [] bucket = "WithinWindow" -> 2 [] bucket = "NotDue" -> 3 [] OTHER -> 2

\* ------------------------------------------------------- uploaded sheets
\* Destinations: two customers at one Texas address (one of them on the
\* no-multi-stop list) and one customer outside Texas without Zone/Route.
Destinations ==
  << [Zone |-> Some("Z1"), Route |-> Some("R1"), Customer |-> "Acme",
      shipping_state |-> "TX", shipping_city |-> "Dallas"],
     [Zone |-> Some("Z1"), Route |-> Some("R1"), Customer |-> "Sabre",
      shipping_state |-> "TX", shipping_city |-> "Dallas"],
     [Zone |-> None, Route |-> None, Customer |-> "Acme",
      shipping_state |-> "OK", shipping_city |-> "Tulsa"] >>

\* Due windows, earliest <= latest, as cells of the sheet (tz-naive):
\* 1 late, 2 near due and not yet shippable, 3 within window and shippable
\* today, 4 no dates at all.
DueWindows ==
  << [EarliestDue |-> Some(Timestamp(0 - 3, "naive")), LatestDue |-> Some(Timestamp(0 - 1, "naive"))],
     [EarliestDue |-> Some(Timestamp(1, "naive")), LatestDue |-> Some(Timestamp(2, "naive"))],
     [EarliestDue |-> Some(Timestamp(0, "naive")), LatestDue |-> Some(Timestamp(9, "naive"))],
     [EarliestDue |-> None, LatestDue |-> None] >>

\* Quantities of a line whose yes_no flag is not set: pieces, ready weight,
\* width (the balance columns repeat the ready columns).
Quantity(pcs, wpp, width) ==
  [RPcs |-> pcs, ReadyWeight |-> pcs * wpp, Width |-> width,
   yes_no |-> "no", BPcs |-> pcs, BalanceWeight |-> pcs * wpp]

\* 1..4: yes_no not set.  5: yes_no = "yes", 2 pieces of 5300 lb ready and a
\* balance of 10 pieces weighing 52000 lb.  6: more pieces than the remainder
\* loop has iterations, no two of which fit one truck.  7: fills a Texas
\* truck exactly together with quantity 2.  8: pieces as heavy as a Texas
\* truck's maximum.  9: pieces heavier than any truck's maximum.  10: as 6,
\* each piece as heavy as the maximum outside Texas.  11: one piece of
\* exactly 0.98 of a Texas truck's maximum.
Quantities ==
  << Quantity(1, 45000, 48), Quantity(1, 10000, 48),
     Quantity(1, 5000, 100), Quantity(30, 2000, 48),
     [RPcs |-> 2, ReadyWeight |-> 10600, Width |-> 48,
      yes_no |-> "yes", BPcs |-> 10, BalanceWeight |-> 52000],
     Quantity(max_remainder_iterations + 2, 30000, 48),
     Quantity(1, 42000, 48), Quantity(3, texas_max_lbs, 48),
     Quantity(2, 60000, 48),
     Quantity(max_remainder_iterations + 2, other_max_lbs, 48),
     Quantity(1, (texas_max_lbs * 98) \div 100, 48) >>

\* The kinds of line a sheet is made of: <<destination, due window, quantity>>.
LineKinds ==
  ({1} \X (1..3) \X (1..4))
    \cup {<<1, 4, 2>>, <<1, 4, 3>>, <<1, 3, 5>>, <<1, 3, 11>>}
    \cup {<<2, 1, 2>>, <<2, 3, 3>>}
    \cup {<<3, 1, 4>>, <<3, 3, 2>>}

\* Row i of the sheet: two consecutive lines belong to one sales order.
SheetRow(i, k) ==
  [SO |-> "SO" \o ToString((i + 1) \div 2), Line |-> "L" \o ToString(i)]
    @@ Destinations[k[1]] @@ DueWindows[k[2]] @@ Quantities[k[3]]

\* Sheets of up to MaxRows lines, kinds in ascending order, the sheet
\* holding the one long line, and a sheet whose two lines of one order and
\* one kind stand in the table with the second line first.
Sheets ==
  { [i \in 1..Len(ks) |-> SheetRow(i, ks[i])] :
      ks \in { s \in UNION { [1..n -> LineKinds] : n \in 0..MaxRows } :
                 \A i \in 1..(Len(s) - 1) : LexLessEq(s[i], s[i + 1]) } }
    \cup { <<SheetRow(1, <<3, 1, 6>>)>> }
    \cup { <<SheetRow(2, <<1, 3, 2>>), SheetRow(1, <<1, 3, 2>>)>> }

\* The kinds of line that exercise the take arithmetic: lines that fit, that
\* fill a truck exactly, that split, whose pieces weigh a whole truck, and
\* whose pieces weigh more than a truck.
TakeKinds ==
  {<<1, 1, 2>>, <<1, 2, 2>>, <<1, 3, 2>>, <<1, 3, 7>>, <<1, 3, 4>>,
   <<3, 3, 4>>, <<1, 3, 8>>, <<1, 3, 9>>}

TakeSheets ==
  { [i \in 1..Len(ks) |-> SheetRow(i, ks[i])] :
      ks \in { s \in UNION { [1..n -> TakeKinds] : n \in 0..MaxRows } :
                 \A i \in 1..(Len(s) - 1) : LexLessEq(s[i], s[i + 1]) } }
    \cup { <<SheetRow(1, <<3, 3, 10>>)>> }

\* ------------------------------------------- naive_grouping: sort, group
\* Stable insertion of x into a sequence sorted by Ord (after its equals).
RECURSIVE InsertByOrd(_, _)
InsertByOrd(x, s) ==
  IF s = <<>> THEN <<x>>
  ELSE IF LexLessEq(s[Len(s)].ord, x.ord) THEN Append(s, x)
  ELSE Append(InsertByOrd(x, SubSeq(s, 1, Len(s) - 1)), s[Len(s)])

RECURSIVE StableSort(_)
StableSort(s) ==
  IF s = <<>> THEN <<>>
  ELSE InsertByOrd(s[Len(s)], StableSort(SubSeq(s, 1, Len(s) - 1)))

RECURSIVE DropOrd(_)
DropOrd(s) ==
  IF s = <<>> THEN <<>>
  ELSE <<[f \in DOMAIN s[1] \ {"ord"} |-> s[1][f]]>> \o DropOrd(Tail(s))

\* grouping_cols with Customer left out of the key.
grouping_cols_without_customer(r) ==
  <<r.Zone, r.Route, Some(r.shipping_state), Some(r.shipping_city)>>

\* The grouping columns of a row: Zone, Route, Customer, state, city.
grouping_cols(r) ==
  <<r.Zone, r.Route, Some(r.Customer), Some(r.shipping_state), Some(r.shipping_city)>>

KeyOrd(key) == [i \in DOMAIN key |-> OptOrd(key[i])]

\* priorityBucket and priorityRank columns, then the sort key of
\* sort_values([priorityRank, Zone, Route, Customer, state, city]).
RECURSIVE with_priority(_)
with_priority(df) ==
  IF df = <<>> THEN <<>>
  ELSE LET r == df[1]
           b == build_priority_bucket(r)
       IN <<[priorityBucket |-> b, priorityRank |-> priority_order(b),
             parent_line |-> None,
             ord |-> <<priority_order(b), OptOrd(r.Zone), OptOrd(r.Route),
                       StrOrd(r.Customer), StrOrd(r.shipping_state),
                       StrOrd(r.shipping_city)>>] @@ r>>
            \o with_priority(Tail(df))

sort_values(df) == DropOrd(StableSort(with_priority(df)))

RECURSIVE KeysOf(_)
KeysOf(df) == IF df = <<>> THEN {} ELSE {grouping_cols(df[1])} \cup KeysOf(Tail(df))

RECURSIVE SortKeys(_)
SortKeys(K) ==
  IF K = {} THEN <<>>
  ELSE LET k == CHOOSE x \in K : \A y \in K : LexLessEq(KeyOrd(x), KeyOrd(y))
       IN <<k>> \o SortKeys(K \ {k})

RowsOf(df, key) ==
  LET InGroup(r) == grouping_cols(r) = key IN SelectSeq(df, InGroup)

\* df.groupby(grouping_cols, dropna=False): the groups in key order, each
\* with its rows in the order of df.
RECURSIVE GroupsInOrder(_, _)
GroupsInOrder(df, keys) ==
  IF keys = <<>> THEN <<>>
  ELSE <<RowsOf(df, keys[1])>> \o GroupsInOrder(df, Tail(keys))

groupby(df) == GroupsInOrder(df, SortKeys(KeysOf(df)))

\* The per-group context of naive_grouping (lines 133-143).
group_context(grp) ==
  LET first == grp[1]
      tx == is_texas(first.shipping_state)
  IN [customer |-> first.Customer, state |-> first.shipping_state,
      city |-> first.shipping_city, zone_val |-> first.Zone,
      route_val |-> first.Route,
      max_weight |-> IF tx THEN weight_config.texas_max_lbs ELSE weight_config.other_max_lbs,
      min_weight |-> IF tx THEN weight_config.texas_min_lbs ELSE weight_config.other_min_lbs]

\* ------------------------------------------------ naive_grouping: packer
\* The open truck (lines 145-154).
empty_truck ==
  [current_weight |-> 0, current_pieces |-> 0, current_orders |-> {},
   current_lines |-> 0, max_width |-> 0, contains_late |-> FALSE,
   has_near_due |-> FALSE, pending_assignments |-> <<>>,
   truck_earliest_due |-> None]

RECURSIVE overwidth_weight(_)
overwidth_weight(pend) ==
  IF pend = <<>> THEN 0
  ELSE (IF pend[1].isOverwidth THEN pend[1].totalWeight ELSE 0)
         + overwidth_weight(Tail(pend))

\* stamp with every truck's assignments numbered 1.
RECURSIVE stamp_first_number(_, _)
stamp_first_number(pend, n) ==
  IF pend = <<>> THEN <<>>
  ELSE <<[pend[1] EXCEPT !.truckNumber = 1]>> \o stamp_first_number(Tail(pend), n)

RECURSIVE stamp(_, _)
stamp(pend, n) ==
  IF pend = <<>> THEN <<>>
  ELSE <<[pend[1] EXCEPT !.truckNumber = n]>> \o stamp(Tail(pend), n)

\* st = [open, truck_counter, truck_rows, assignment_rows]; g the group context.
finalize_truck(st, g) ==
  LET o == st.open IN
  IF o.current_weight = 0 THEN st
  ELSE
    LET n == st.truck_counter + 1
        priority_bucket == IF o.contains_late THEN "Late"
                           ELSE IF o.has_near_due THEN "NearDue"
                           ELSE "WithinWindow"
        truck ==
          [truckNumber |-> n, customerName |-> g.customer,
           customerCity |-> g.city, customerState |-> g.state,
           zone |-> g.zone_val, route |-> g.route_val,
           totalWeight |-> o.current_weight, minWeight |-> g.min_weight,
           maxWeight |-> g.max_weight,
           totalOrders |-> Cardinality(o.current_orders),
           totalLines |-> o.current_lines, totalPieces |-> o.current_pieces,
           maxWidth |-> o.max_width,
           percentOverwidth |->
             [num |-> overwidth_weight(o.pending_assignments) * 100,
              den |-> o.current_weight],
           containsLate |-> o.contains_late,
           priorityBucket |-> priority_bucket]
    IN [open |-> empty_truck, truck_counter |-> n,
        truck_rows |-> Append(st.truck_rows, truck),
        assignment_rows |-> st.assignment_rows \o stamp(o.pending_assignments, n)]

\* The assignment dict appended to pending_assignments (lines 291-316, 415-439).
assignment(row, g, line_name, take_pieces, is_remainder, parent_line) ==
  [so |-> row.SO, line |-> line_name, customerName |-> row.Customer,
   customerCity |-> row.shipping_city, customerState |-> row.shipping_state,
   zone |-> g.zone_val, route |-> g.route_val,
   piecesOnTransport |-> take_pieces, totalReadyPieces |-> row.RPcs,
   weightPerPiece |-> row.WeightPerPiece,
   totalWeight |-> take_pieces * row.WeightPerPiece,
   width |-> row.Width, isOverwidth |-> row.Width > OverwidthInches,
   isLate |-> row.IsLate, priorityBucket |-> row.priorityBucket,
   earliestDue |-> isoformat(row.EarliestDue),
   latestDue |-> isoformat(row.LatestDue),
   isPartial |-> take_pieces < row.RPcs,
   remainingPieces |-> IF take_pieces < row.RPcs THEN row.RPcs - take_pieces ELSE 0,
   isRemainder |-> is_remainder, parentLine |-> parent_line,
   truckNumber |-> 0]

\* late_mixing without its second direction (lines 248-250, 381-383).
late_mixing_first_direction(st, g, row) ==
  LET o == st.open
      blocked1 == (~row.IsLate) /\ o.contains_late /\ o.current_weight > 0
                    /\ (IsNone(row.EarliestDue)
                          \/ TimestampGT(Val(row.EarliestDue), today_utc) = "True")
  IN IF blocked1 THEN finalize_truck(st, g) ELSE st

\* The late-mixing rule applied before a row is placed (lines 242-250, 377-383).
late_mixing(st, g, row) ==
  LET o == st.open
      blocked1 == (~row.IsLate) /\ o.contains_late /\ o.current_weight > 0
                    /\ (IsNone(row.EarliestDue)
                          \/ TimestampGT(Val(row.EarliestDue), today_utc) = "True")
      st1 == IF blocked1 THEN finalize_truck(st, g) ELSE st
      o1 == st1.open
      blocked2 == row.IsLate /\ o1.current_weight > 0 /\ ~o1.contains_late
                    /\ ~IsNone(o1.truck_earliest_due)
                    /\ TimestampGT(Val(o1.truck_earliest_due), today_utc) = "True"
  IN IF blocked2 THEN finalize_truck(st1, g) ELSE st1

\* has_near_due is raised as soon as a NearDue row is read (lines 224-226).
note_near_due(st, row) ==
  IF row.priorityBucket = "NearDue"
  THEN [st EXCEPT !.open.has_near_due = TRUE] ELSE st

\* Commit take_pieces of the row to the open truck (lines 272-316, 401-444).
commit(st, g, row, line_name, take_pieces, is_remainder, parent_line) ==
  LET o == st.open
      ted == IF IsNone(row.EarliestDue) THEN o.truck_earliest_due
             ELSE IF IsNone(o.truck_earliest_due)
                     \/ Val(row.EarliestDue).day < Val(o.truck_earliest_due).day
                  THEN row.EarliestDue ELSE o.truck_earliest_due
  IN [st EXCEPT !.open =
        [current_weight |-> o.current_weight + take_pieces * row.WeightPerPiece,
         current_pieces |-> o.current_pieces + take_pieces,
         current_orders |-> o.current_orders \cup {row.SO},
         current_lines |-> o.current_lines + 1,
         max_width |-> Max2(o.max_width, row.Width),
         contains_late |-> o.contains_late \/ row.IsLate,
         has_near_due |-> o.has_near_due,
         pending_assignments |->
           Append(o.pending_assignments,
                  assignment(row, g, line_name, take_pieces, is_remainder, parent_line)),
         truck_earliest_due |-> ted]]

\* remainder_row without the _parent_line mark of line 328.
remainder_row_untagged(row, take_pieces, parent_line) ==
  [row EXCEPT !.RPcs = row.RPcs - take_pieces,
              !.ReadyWeight = (row.RPcs - take_pieces) * row.WeightPerPiece]

\* The residual row queued for the remainder loop (lines 319-329, 447-454).
remainder_row(row, take_pieces, parent_line) ==
  [row EXCEPT !.RPcs = row.RPcs - take_pieces,
              !.ReadyWeight = (row.RPcs - take_pieces) * row.WeightPerPiece,
              !.parent_line = parent_line]

\* "If we hit/exceed the max, finalize" (lines 332-333, 457-458).
soft_full(weight, max_weight) == weight * 100 >= max_weight * 98

\* finalize_if_full that never finalizes.
finalize_if_full_never(st, g) == st

finalize_if_full(st, g) ==
  IF soft_full(st.open.current_weight, g.max_weight) THEN finalize_truck(st, g) ELSE st

\* pack_row without the finalize of lines 264-265: the retry takes its
\* pieces onto the truck that had no room.
pack_row_keeps_truck(st0, g, row) ==
  LET pieces == row.RPcs
      wpp == row.WeightPerPiece
      st1 == late_mixing(note_near_due(st0, row), g, row)
      cap1 == g.max_weight - st1.open.current_weight
      take1 == IF row.ReadyWeight <= cap1 THEN pieces
               ELSE IF wpp > 0 THEN cap1 \div wpp ELSE 0
      retry == take1 = 0 /\ st1.open.current_weight > 0
      take2 == IF retry
               THEN (IF wpp > 0 THEN Min2(pieces, g.max_weight \div wpp) ELSE pieces)
               ELSE take1
      take_pieces == Max2(0, Min2(pieces, take2))
      st3 == commit(st1, g, row, row.Line, take_pieces, FALSE, None)
  IN IF pieces <= 0 THEN [st |-> st0, rem |-> <<>>]
     ELSE IF take_pieces = 0 THEN [st |-> st1, rem |-> <<>>]
     ELSE [st |-> finalize_if_full(st3, g),
           rem |-> IF pieces - take_pieces > 0
                   THEN <<remainder_row(row, take_pieces, Some(row.SO \o "-" \o row.Line))>>
                   ELSE <<>>]

\* One iteration of the loop over the group's fresh rows (lines 214-333).
\* Result: the packer state and the remainders queued (none or one).
pack_row(st0, g, row) ==
  LET pieces == row.RPcs
      wpp == row.WeightPerPiece
      st1 == late_mixing(note_near_due(st0, row), g, row)
      cap1 == g.max_weight - st1.open.current_weight
      take1 == IF row.ReadyWeight <= cap1 THEN pieces
               ELSE IF wpp > 0 THEN cap1 \div wpp ELSE 0
      retry == take1 = 0 /\ st1.open.current_weight > 0
      st2 == IF retry THEN finalize_truck(st1, g) ELSE st1
      cap2 == g.max_weight - st2.open.current_weight
      take2 == IF retry
               THEN (IF wpp > 0 THEN Min2(pieces, cap2 \div wpp) ELSE pieces)
               ELSE take1
      take_pieces == Max2(0, Min2(pieces, take2))
      st3 == commit(st2, g, row, row.Line, take_pieces, FALSE, None)
  IN IF pieces <= 0 THEN [st |-> st0, rem |-> <<>>]
     ELSE IF take_pieces = 0 THEN [st |-> st2, rem |-> <<>>]
     ELSE [st |-> finalize_if_full(st3, g),
           rem |-> IF pieces - take_pieces > 0
                   THEN <<remainder_row(row, take_pieces, Some(row.SO \o "-" \o row.Line))>>
                   ELSE <<>>]

\* One iteration of the loop over the remainders (lines 353-458).
pack_remainder(st0, g, row, iteration_count) ==
  LET pieces == row.RPcs
      wpp == row.WeightPerPiece
      st1 == late_mixing(note_near_due(st0, row), g, row)
      cap1 == g.max_weight - st1.open.current_weight
      fits == row.ReadyWeight <= cap1
      st2 == IF ~fits /\ st1.open.current_weight > 0 THEN finalize_truck(st1, g) ELSE st1
      cap2 == g.max_weight - st2.open.current_weight
      take1 == IF fits THEN pieces
               ELSE IF wpp > 0 THEN Min2(pieces, cap2 \div wpp) ELSE pieces
      take_pieces == Max2(0, Min2(pieces, take1))
      st3 == commit(st2, g, row, row.Line \o "-R" \o ToString(iteration_count),
                    take_pieces, TRUE, row.parent_line)
  IN IF pieces <= 0 THEN [st |-> st0, rem |-> <<>>]
     ELSE IF take_pieces = 0 THEN [st |-> st2, rem |-> <<>>]
     ELSE [st |-> finalize_if_full(st3, g),
           rem |-> IF pieces - take_pieces > 0
                   THEN <<remainder_row(row, take_pieces, row.parent_line)>>
                   ELSE <<>>]

\* remainder_df.sort_values("priorityRank") (lines 346-350).
RECURSIVE with_rank(_)
with_rank(rows) ==
  IF rows = <<>> THEN <<>>
  ELSE <<[ord |-> <<priority_order(rows[1].priorityBucket)>>] @@ rows[1]>>
         \o with_rank(Tail(rows))

sort_remainders(rows) == DropOrd(StableSort(with_rank(rows)))

\* --------------------------------------- naive_grouping: cross-bucket fill
TruckNumbersOf(assigns) == {assigns[i].truckNumber : i \in 1..Len(assigns)}

\* The numbers of S in ascending order: the i-th has i - 1 below it.
Ascending(S) ==
  [i \in 1..Cardinality(S) |-> CHOOSE x \in S : Cardinality({y \in S : y < x}) = i - 1]

OnTruck(assigns, tnum) ==
  LET Here(a) == a.truckNumber = tnum IN SelectSeq(assigns, Here)

RECURSIVE MaxWidthOf(_)
MaxWidthOf(grp) ==
  IF Len(grp) = 1 THEN grp[1].width ELSE Max2(grp[1].width, MaxWidthOf(Tail(grp)))

\* truck_summary counting every line as a sales order of its own.
truck_summary_orders_as_lines(tnum, grp, base) ==
  LET Same(t) == t.truckNumber = tnum
      brows == SelectSeq(base, Same)
      any_row == grp[1]
      zone_val == IF brows = <<>> THEN None ELSE brows[1].zone
      route_val == IF brows = <<>> THEN None ELSE brows[1].route
      customer == IF brows = <<>> THEN any_row.customerName ELSE brows[1].customerName
      city == IF brows = <<>> THEN any_row.customerCity ELSE brows[1].customerCity
      state == IF brows = <<>> THEN any_row.customerState ELSE brows[1].customerState
      is_tx == is_texas(state)
      buckets == {grp[i].priorityBucket : i \in DOMAIN grp}
  IN [truckNumber |-> tnum, customerName |-> customer, customerCity |-> city,
      customerState |-> state, zone |-> zone_val, route |-> route_val,
      totalWeight |-> SumSeq(MapWeight(grp)),
      minWeight |-> IF is_tx THEN weight_config.texas_min_lbs ELSE weight_config.other_min_lbs,
      maxWeight |-> IF is_tx THEN weight_config.texas_max_lbs ELSE weight_config.other_max_lbs,
      totalOrders |-> Len(grp),
      totalLines |-> Len(grp),
      totalPieces |-> SumSeq(MapPieces(grp)),
      maxWidth |-> MaxWidthOf(grp),
      percentOverwidth |-> [num |-> 0, den |-> 1],
      containsLate |-> \E i \in DOMAIN grp : grp[i].isLate,
      priorityBucket |-> IF "Late" \in buckets THEN "Late"
                         ELSE IF "NearDue" \in buckets THEN "NearDue"
                         ELSE "WithinWindow"]

\* truck_summary taking bucket and lateness from the truck's first assignment.
truck_summary_of_first_line(tnum, grp, base) ==
  LET Same(t) == t.truckNumber = tnum
      brows == SelectSeq(base, Same)
      any_row == grp[1]
      state == IF brows = <<>> THEN any_row.customerState ELSE brows[1].customerState
      is_tx == is_texas(state)
  IN [truckNumber |-> tnum,
      customerName |-> IF brows = <<>> THEN any_row.customerName ELSE brows[1].customerName,
      customerCity |-> IF brows = <<>> THEN any_row.customerCity ELSE brows[1].customerCity,
      customerState |-> state,
      zone |-> IF brows = <<>> THEN None ELSE brows[1].zone,
      route |-> IF brows = <<>> THEN None ELSE brows[1].route,
      totalWeight |-> SumSeq(MapWeight(grp)),
      minWeight |-> IF is_tx THEN weight_config.texas_min_lbs ELSE weight_config.other_min_lbs,
      maxWeight |-> IF is_tx THEN weight_config.texas_max_lbs ELSE weight_config.other_max_lbs,
      totalOrders |-> Cardinality({grp[i].so : i \in DOMAIN grp}),
      totalLines |-> Len(grp),
      totalPieces |-> SumSeq(MapPieces(grp)),
      maxWidth |-> MaxWidthOf(grp),
      percentOverwidth |-> [num |-> 0, den |-> 1],
      containsLate |-> any_row.isLate,
      priorityBucket |-> IF any_row.priorityBucket \in {"Late", "NearDue"}
                         THEN any_row.priorityBucket ELSE "WithinWindow"]

\* One row of rebuild_truck_summaries (lines 513-571): the summary of truck
\* tnum from its assignments grp, its destination from the truck's row in base.
truck_summary(tnum, grp, base) ==
  LET Same(t) == t.truckNumber = tnum
      brows == SelectSeq(base, Same)
      any_row == grp[1]
      zone_val == IF brows = <<>> THEN None ELSE brows[1].zone
      route_val == IF brows = <<>> THEN None ELSE brows[1].route
      customer == IF brows = <<>> THEN any_row.customerName ELSE brows[1].customerName
      city == IF brows = <<>> THEN any_row.customerCity ELSE brows[1].customerCity
      state == IF brows = <<>> THEN any_row.customerState ELSE brows[1].customerState
      is_tx == is_texas(state)
      buckets == {grp[i].priorityBucket : i \in DOMAIN grp}
  IN [truckNumber |-> tnum, customerName |-> customer, customerCity |-> city,
      customerState |-> state, zone |-> zone_val, route |-> route_val,
      totalWeight |-> SumSeq(MapWeight(grp)),
      minWeight |-> IF is_tx THEN weight_config.texas_min_lbs ELSE weight_config.other_min_lbs,
      maxWeight |-> IF is_tx THEN weight_config.texas_max_lbs ELSE weight_config.other_max_lbs,
      totalOrders |-> Cardinality({grp[i].so : i \in DOMAIN grp}),
      totalLines |-> Len(grp),
      totalPieces |-> SumSeq(MapPieces(grp)),
      maxWidth |-> MaxWidthOf(grp),
      percentOverwidth |-> [num |-> 0, den |-> 1],
      containsLate |-> \E i \in DOMAIN grp : grp[i].isLate,
      priorityBucket |-> IF "Late" \in buckets THEN "Late"
                         ELSE IF "NearDue" \in buckets THEN "NearDue"
                         ELSE "WithinWindow"]

SummariesOf(tnums, assigns, base) ==
  [i \in 1..Len(tnums) |-> truck_summary(tnums[i], OnTruck(assigns, tnums[i]), base)]

\* The summaries are not rebuilt: the rows of base are returned as they are.
summaries_not_rebuilt(from_assigns, base) == base

\* rebuild_truck_summaries (lines 508-572): one row per truck number that
\* still has assignments, in ascending truck number.
rebuild_truck_summaries(from_assigns, base) ==
  SummariesOf(Ascending(TruckNumbersOf(from_assigns)), from_assigns, base)

\* _truck_group_key (lines 471-478).
truck_group_key(trow) ==
  <<trow.zone, trow.route, Some(trow.customerName), Some(trow.customerState),
    Some(trow.customerCity)>>

\* The trucks of one group key that are targets / donors of the pass.
TrucksIn(trucks, gk, buckets) ==
  LET Member(t) == truck_group_key(t) = gk /\ t.priorityBucket \in buckets
      members   == SelectSeq(trucks, Member)
  IN  [i \in 1..Len(members) |-> members[i].truckNumber]

\* The dict built in lines 582-592, in insertion order, without the groups
\* the loop of lines 595-599 skips.
\* A group is entered at the first truck of its key, unless the key is in
\* seen or the group has no target or no donor.
fill_groups(trucks, all, seen, target_buckets, donor_buckets) ==
  LET gk_at(i) == truck_group_key(trucks[i])
      entered  == {i \in 1..Len(trucks) :
                     /\ gk_at(i) \notin seen
                     /\ \A j \in 1..(i - 1) : gk_at(j) # gk_at(i)
                     /\ TrucksIn(all, gk_at(i), target_buckets) # <<>>
                     /\ TrucksIn(all, gk_at(i), donor_buckets) # <<>>}
      at       == Ascending(entered)
  IN  [n \in 1..Len(at) |->
         [gk |-> gk_at(at[n]), targets |-> TrucksIn(all, gk_at(at[n]), target_buckets),
          donors |-> TrucksIn(all, gk_at(at[n]), donor_buckets)]]

target_buckets(pass) == IF pass = 1 THEN {"Late"} ELSE {"NearDue"}
donor_buckets(pass) == IF pass = 1 THEN {"NearDue", "WithinWindow"} ELSE {"WithinWindow"}

\* _eq_or_none (lines 626-629) on one cell.
eq_or_none(cell, key) ==
  IF IsNone(key) THEN IsNone(cell) ELSE ~IsNone(cell) /\ Val(cell) = Val(key)

\* The mask of lines 630-636 on one assignment.
matches_group(a, gk) ==
  /\ eq_or_none(a.zone, gk[1])
  /\ eq_or_none(a.route, gk[2])
  /\ a.customerName = Val(gk[3])
  /\ a.customerState = Val(gk[4])
  /\ a.customerCity = Val(gk[5])

\* candidates cut to the donor's first matching row.
RECURSIVE candidates_first_row(_, _, _, _)
candidates_first_row(assigns, i, d_truck, gk) ==
  IF i > Len(assigns) THEN <<>>
  ELSE IF assigns[i].truckNumber = d_truck /\ matches_group(assigns[i], gk)
  THEN <<i>>
  ELSE candidates_first_row(assigns, i + 1, d_truck, gk)

\* Index labels of the donor's candidate rows (lines 619-637).
candidates(assigns, i, d_truck, gk) ==
  Ascending({k \in i..Len(assigns) :
               assigns[k].truckNumber = d_truck /\ matches_group(assigns[k], gk)})

\* Lines 649-662: the assignment is skipped because its earliestDue is after
\* today.  The comparison is of the parsed text with a tz-naive today; when
\* it raises, the except clause lets the assignment through.
late_gate_skips(a, pass) ==
  /\ "Late" \in target_buckets(pass)
  /\ ~IsNone(a.earliestDue)
  /\ TimestampGT(to_datetime_str(Val(a.earliestDue)), today_naive) = "True"

\* Line 664.
fits_target(t_weight, w, t_max) == (t_weight + w) * 10000 <= t_max * 10001

\* Lines 611, 670, 679.
target_reached(t_weight, t_min, t_max) ==
  t_weight >= t_min \/ soft_full(t_weight, t_max)

\* The row is copied to the target and stays on the donor as well.
reassign_copy(assigns, ridx, t_truck) ==
  Append(assigns, [assigns[ridx] EXCEPT !.truckNumber = t_truck])

\* Line 666.
reassign(assigns, ridx, t_truck) == [assigns EXCEPT ![ridx].truckNumber = t_truck]

RECURSIVE Without(_, _)
Without(s, x) ==
  IF s = <<>> THEN <<>>
  ELSE IF s[1] = x THEN Tail(s) ELSE <<s[1]>> \o Without(Tail(s), x)

\* ------------------------------------------------------------------ state
VARIABLES
  pc,                 \* where the request is
  sheet,              \* the uploaded rows
  df,                 \* the data frame handed from step to step
  groups,             \* groups of df not yet packed, in groupby order
  g,                  \* context of the group being packed (None between groups)
  rows,               \* fresh rows of the group not yet read
  st,                 \* open truck, truck_counter, truck_rows, assignment_rows
  pending_remainders, \* remainders queued for the next iteration
  current_remainders, \* remainders of this iteration not yet read
  iteration_count,
  trucks_df,          \* the truck summaries the fill passes read and the result
  assigns_df,         \* the assignments the fill passes move and the result
  fill,               \* position of the running fill pass
  applied,            \* how many times the fill step has been applied
  first_out,          \* the result of its first application
  rpc,                \* where the geocoding, routing or list request is
  address_cache,      \* the address_cache table: normalized key -> coordinates
  distance_cache,     \* the distance_cache table: <<origin, destination, provider>> -> leg
  job,                \* working structures of that request
  response,           \* what that request returned
  no_multi_stop       \* the module-level list NO_MULTI_STOP_CUSTOMERS

packer_vars == <<groups, g, rows, st, pending_remainders, current_remainders, iteration_count>>
plan_vars == <<pc, sheet, df, packer_vars, trucks_df, assigns_df, fill, applied, first_out>>
route_vars == <<rpc, address_cache, distance_cache, job, response, no_multi_stop>>
vars == <<plan_vars, route_vars>>

\* No fill pass is running.
idle_fill ==
  [pass |-> 0, groups |-> <<>>, t |-> None, donors_left |-> <<>>, d |-> None,
   cand |-> <<>>]

empty_state ==
  [open |-> empty_truck, truck_counter |-> 0, truck_rows |-> <<>>,
   assignment_rows |-> <<>>]

\* No geocoding, routing or list request is under way; the module-level list
\* is as the module defines it (optimizer_simple.py, lines 10-24).
RouteIdle ==
  /\ rpc = "none"
  /\ address_cache = <<>>
  /\ distance_cache = <<>>
  /\ job = None
  /\ response = None
  /\ no_multi_stop = NO_MULTI_STOP_CUSTOMERS

Init ==
  /\ RouteIdle
  /\ pc = "upload"
  /\ sheet \in Sheets
  /\ df = sheet
  /\ groups = <<>>
  /\ g = None
  /\ rows = <<>>
  /\ st = empty_state
  /\ pending_remainders = <<>>
  /\ current_remainders = <<>>
  /\ iteration_count = 0
  /\ trucks_df = <<>>
  /\ assigns_df = <<>>
  /\ fill = idle_fill
  /\ applied = 0
  /\ first_out = None

\* main.optimize, lines 300-301: calculated fields, then the routing filters.
Prepare ==
  /\ pc = "upload"
  /\ df' = apply_routing_filters(compute_calculated_fields_df(df))
  /\ pc' = "sort"
  /\ UNCHANGED <<sheet, packer_vars, trucks_df, assigns_df, fill, applied, first_out>>
  /\ UNCHANGED route_vars

\* naive_grouping, lines 100-128: priority columns, sort, groupby.
SortAndGroup ==
  /\ pc = "sort"
  /\ df' = sort_values(df)
  /\ groups' = groupby(df')
  /\ pc' = "groups"
  /\ UNCHANGED <<sheet, g, rows, st, pending_remainders, current_remainders,
                 iteration_count, trucks_df, assigns_df, fill, applied, first_out>>
  /\ UNCHANGED route_vars

\* Enter the next group (lines 128-212).
BeginGroup ==
  /\ pc = "groups"
  /\ groups # <<>>
  /\ g' = Some(group_context(groups[1]))
  /\ rows' = groups[1]
  /\ groups' = Tail(groups)
  /\ st' = [st EXCEPT !.open = empty_truck]
  /\ pending_remainders' = <<>>
  /\ current_remainders' = <<>>
  /\ iteration_count' = 0
  /\ pc' = "fresh"
  /\ UNCHANGED <<sheet, df, trucks_df, assigns_df, fill, applied, first_out>>
  /\ UNCHANGED route_vars

\* One fresh row of the group (lines 214-333).
PackRow ==
  /\ pc = "fresh"
  /\ rows # <<>>
  /\ LET r == pack_row(st, Val(g), rows[1])
     IN /\ st' = r.st
        /\ pending_remainders' = pending_remainders \o r.rem
  /\ rows' = Tail(rows)
  /\ UNCHANGED <<pc, sheet, df, groups, g, current_remainders, iteration_count,
                 trucks_df, assigns_df, fill, applied, first_out>>
  /\ UNCHANGED route_vars

\* The fresh rows are exhausted: on to the remainder loop.
EndFresh ==
  /\ pc = "fresh"
  /\ rows = <<>>
  /\ pc' = "remainders"
  /\ UNCHANGED <<sheet, df, packer_vars, trucks_df, assigns_df, fill, applied, first_out>>
  /\ UNCHANGED route_vars

\* Head of the while loop (lines 340-350): take and sort the queue.
BeginIteration ==
  /\ pc = "remainders"
  /\ current_remainders = <<>>
  /\ pending_remainders # <<>>
  /\ iteration_count < max_remainder_iterations
  /\ iteration_count' = iteration_count + 1
  /\ current_remainders' = sort_remainders(pending_remainders)
  /\ pending_remainders' = <<>>
  /\ UNCHANGED <<pc, sheet, df, groups, g, rows, st, trucks_df, assigns_df, fill, applied, first_out>>
  /\ UNCHANGED route_vars

\* One remainder of the iteration (lines 353-458).
PackRemainder ==
  /\ pc = "remainders"
  /\ current_remainders # <<>>
  /\ LET r == pack_remainder(st, Val(g), current_remainders[1], iteration_count)
     IN /\ st' = r.st
        /\ pending_remainders' = pending_remainders \o r.rem
  /\ current_remainders' = Tail(current_remainders)
  /\ UNCHANGED <<pc, sheet, df, groups, g, rows, iteration_count, trucks_df, assigns_df, fill, applied, first_out>>
  /\ UNCHANGED route_vars

\* The while loop ends: "finalize remaining for this group" (line 461).
EndGroup ==
  /\ pc = "remainders"
  /\ current_remainders = <<>>
  /\ pending_remainders = <<>> \/ iteration_count >= max_remainder_iterations
  /\ st' = finalize_truck(st, Val(g))
  /\ g' = None
  /\ pc' = "groups"
  /\ UNCHANGED <<sheet, df, groups, rows, pending_remainders, current_remainders,
                 iteration_count, trucks_df, assigns_df, fill, applied, first_out>>
  /\ UNCHANGED route_vars

\* All groups packed: the data frames of lines 463-464.
EndPacking ==
  /\ pc = "groups"
  /\ groups = <<>>
  /\ trucks_df' = st.truck_rows
  /\ assigns_df' = st.assignment_rows
  /\ pc' = "packed"
  /\ UNCHANGED <<sheet, df, packer_vars, fill, applied, first_out>>
  /\ UNCHANGED route_vars

\* Line 480: nothing was packed, the fill step is skipped.
SkipFill ==
  /\ pc = "packed"
  /\ trucks_df = <<>> \/ assigns_df = <<>>
  /\ pc' = "done"
  /\ UNCHANGED <<sheet, df, packer_vars, trucks_df, assigns_df, fill, applied, first_out>>
  /\ UNCHANGED route_vars

\* fill_pass is entered (lines 575-592, called at 683 and 685).
FillPassBegin(pass) ==
  /\ \/ pass = 1 /\ pc = "packed" /\ trucks_df # <<>> /\ assigns_df # <<>>
     \/ pass = 2 /\ pc = "filled1"
  /\ LET trucks_local == rebuild_truck_summaries(assigns_df, trucks_df)
     IN fill' = [idle_fill EXCEPT
                   !.pass = pass,
                   !.groups = fill_groups(trucks_local, trucks_local, {},
                                          target_buckets(pass), donor_buckets(pass))]
  /\ pc' = "fill"
  /\ UNCHANGED <<sheet, df, packer_vars, trucks_df, assigns_df, applied, first_out>>
  /\ UNCHANGED route_vars

\* The targets of the group are exhausted: next group (line 595).
NextGroup ==
  /\ pc = "fill" /\ IsNone(fill.t)
  /\ fill.groups # <<>> /\ fill.groups[1].targets = <<>>
  /\ fill' = [fill EXCEPT !.groups = Tail(fill.groups)]
  /\ UNCHANGED <<pc, sheet, df, packer_vars, trucks_df, assigns_df, applied, first_out>>
  /\ UNCHANGED route_vars

\* Next target of the group (lines 601-612): a target at or above its
\* minimum, or soft-full, is passed over.
NextTarget ==
  /\ pc = "fill" /\ IsNone(fill.t)
  /\ fill.groups # <<>> /\ fill.groups[1].targets # <<>>
  /\ LET grp == fill.groups[1]
         t_truck == grp.targets[1]
         Same(t) == t.truckNumber = t_truck
         t_rows == SelectSeq(rebuild_truck_summaries(assigns_df, trucks_df), Same)
         skip == t_rows = <<>>
                   \/ target_reached(t_rows[1].totalWeight, t_rows[1].minWeight,
                                     t_rows[1].maxWeight)
     IN fill' = [fill EXCEPT
                   !.groups[1].targets = Tail(grp.targets),
                   !.t = IF skip THEN None
                         ELSE Some([truck |-> t_truck,
                                    weight |-> t_rows[1].totalWeight,
                                    min |-> t_rows[1].minWeight,
                                    max |-> t_rows[1].maxWeight]),
                   !.donors_left = IF skip THEN <<>> ELSE grp.donors]
  /\ UNCHANGED <<pc, sheet, df, packer_vars, trucks_df, assigns_df, applied, first_out>>
  /\ UNCHANGED route_vars

\* Next donor for the target (lines 614-639).
NextDonor ==
  /\ pc = "fill" /\ ~IsNone(fill.t) /\ IsNone(fill.d)
  /\ fill.donors_left # <<>>
  /\ LET d_truck == fill.donors_left[1]
         cand == candidates(assigns_df, 1, d_truck, fill.groups[1].gk)
         pass_over == d_truck = Val(fill.t).truck \/ cand = <<>>
     IN fill' = [fill EXCEPT
                   !.donors_left = Tail(fill.donors_left),
                   !.d = IF pass_over THEN None ELSE Some(d_truck),
                   !.cand = IF pass_over THEN <<>> ELSE cand]
  /\ UNCHANGED <<pc, sheet, df, packer_vars, trucks_df, assigns_df, applied, first_out>>
  /\ UNCHANGED route_vars

\* One candidate row of the donor (lines 642-671).
TryMove ==
  /\ pc = "fill" /\ ~IsNone(fill.d) /\ fill.cand # <<>>
  /\ LET ridx == fill.cand[1]
         arow == assigns_df[ridx]
         t == Val(fill.t)
         w == arow.totalWeight
         move == /\ ~(w <= 0)
                 /\ ~late_gate_skips(arow, fill.pass)
                 /\ fits_target(t.weight, w, t.max)
         t_weight == IF move THEN t.weight + w ELSE t.weight
     IN /\ assigns_df' = IF move THEN reassign(assigns_df, ridx, t.truck) ELSE assigns_df
        /\ fill' = [fill EXCEPT
                      !.t = Some([t EXCEPT !.weight = t_weight]),
                      !.cand = IF move /\ target_reached(t_weight, t.min, t.max)
                               THEN <<>> ELSE Tail(fill.cand)]
  /\ UNCHANGED <<pc, sheet, df, packer_vars, trucks_df, applied, first_out>>
  /\ UNCHANGED route_vars

\* The donor's rows are done (lines 672-680): an emptied donor leaves the
\* group's donor list, a satisfied target ends its donor loop.
EndDonor ==
  /\ pc = "fill" /\ ~IsNone(fill.d) /\ fill.cand = <<>>
  /\ LET d_truck == Val(fill.d)
         t == Val(fill.t)
         emptied == OnTruck(assigns_df, d_truck) = <<>>
         reached == target_reached(t.weight, t.min, t.max)
     IN fill' = [fill EXCEPT
                   !.groups[1].donors = IF emptied THEN Without(@, d_truck) ELSE @,
                   !.d = None,
                   !.t = IF reached THEN None ELSE @,
                   !.donors_left = IF reached THEN <<>> ELSE @]
  /\ UNCHANGED <<pc, sheet, df, packer_vars, trucks_df, assigns_df, applied, first_out>>
  /\ UNCHANGED route_vars

\* The donors are exhausted for this target.
EndTarget ==
  /\ pc = "fill" /\ ~IsNone(fill.t) /\ IsNone(fill.d)
  /\ fill.donors_left = <<>>
  /\ fill' = [fill EXCEPT !.t = None]
  /\ UNCHANGED <<pc, sheet, df, packer_vars, trucks_df, assigns_df, applied, first_out>>
  /\ UNCHANGED route_vars

\* fill_pass returns.
FillPassEnd ==
  /\ pc = "fill" /\ IsNone(fill.t) /\ fill.groups = <<>>
  /\ pc' = IF fill.pass = 1 THEN "filled1" ELSE "filled2"
  /\ fill' = idle_fill
  /\ UNCHANGED <<sheet, df, packer_vars, trucks_df, assigns_df, applied, first_out>>
  /\ UNCHANGED route_vars

\* "Rebuild final summaries after reassignment" (line 688).
FinalRebuild ==
  /\ pc = "filled2"
  /\ trucks_df' = rebuild_truck_summaries(assigns_df, trucks_df)
  /\ pc' = "done"
  /\ applied' = applied + 1
  /\ UNCHANGED <<sheet, df, packer_vars, assigns_df, fill, first_out>>
  /\ UNCHANGED route_vars

Next ==
  \/ Prepare
  \/ SortAndGroup
  \/ BeginGroup
  \/ PackRow
  \/ EndFresh
  \/ BeginIteration
  \/ PackRemainder
  \/ EndGroup
  \/ EndPacking
  \/ SkipFill
  \/ \E pass \in {1, 2} : FillPassBegin(pass)
  \/ NextGroup
  \/ NextTarget
  \/ NextDonor
  \/ TryMove
  \/ EndDonor
  \/ EndTarget
  \/ FillPassEnd
  \/ FinalRebuild

Spec == Init /\ [][Next]_vars

\* The same request for the sheets of TakeSheets.
InitTake ==
  /\ RouteIdle
  /\ pc = "upload"
  /\ sheet \in TakeSheets
  /\ df = sheet
  /\ groups = <<>>
  /\ g = None
  /\ rows = <<>>
  /\ st = empty_state
  /\ pending_remainders = <<>>
  /\ current_remainders = <<>>
  /\ iteration_count = 0
  /\ trucks_df = <<>>
  /\ assigns_df = <<>>
  /\ fill = idle_fill
  /\ applied = 0
  /\ first_out = None

SpecTake == InitTake /\ [][Next]_vars

\* The fill step (lines 480-688) applied once more, to its own result.
FillAgain ==
  /\ pc = "done" /\ applied = 1
  /\ first_out' = Some([trucks |-> trucks_df, assigns |-> assigns_df])
  /\ pc' = "packed"
  /\ UNCHANGED <<sheet, df, packer_vars, trucks_df, assigns_df, fill, applied>>
  /\ UNCHANGED route_vars

NextTwice == Next \/ FillAgain

SpecTwice == Init /\ [][NextTwice]_vars

\* ------------------------------------------------------------ properties
\* The packer has run (and possibly the fill step).
Packed == pc \in {"packed", "fill", "filled1", "filled2", "done"}

\* The input line an assignment comes from, as "SO-Line".
SourceLine(a) == IF a.isRemainder THEN Val(a.parentLine) ELSE a.so \o "-" \o a.line

PiecesPlaced(assigns, r) ==
  LET From(a) == SourceLine(a) = r.SO \o "-" \o r.Line
  IN SumSeq(MapPieces(SelectSeq(assigns, From)))

MaxWeightOf(state) ==
  IF is_texas(state) THEN weight_config.texas_max_lbs ELSE weight_config.other_max_lbs

\* An assignment's earliestDue is after today.
DueAfterToday(a) == ~IsNone(a.earliestDue) /\ Val(a.earliestDue).date > today_utc.day

\* The fill step has moved at least one assignment.
Moved ==
  \E i \in DOMAIN assigns_df :
    i \in DOMAIN st.assignment_rows
      /\ assigns_df[i].truckNumber # st.assignment_rows[i].truckNumber

\* C1: conservation of pieces.  In the load plan, the pieces placed of every
\* line that entered the packer add up to its readyPieces, or to less only
\* when the line's per-piece weight exceeds the truck's maxWeight.
C1_PiecesConserved ==
  pc = "done" =>
    \A i \in DOMAIN df :
      LET placed == PiecesPlaced(assigns_df, df[i])
      IN \/ placed = df[i].RPcs
         \/ placed < df[i].RPcs
              /\ df[i].WeightPerPiece > MaxWeightOf(df[i].shipping_state)

\* C2: capacity.  Every truck of the load plan weighs at most
\* maxWeight * 1.0001, maxWeight chosen by the truck's state.
C2_Capacity ==
  pc = "done" =>
    \A i \in DOMAIN trucks_df :
      trucks_df[i].totalWeight * 10000
        <= MaxWeightOf(trucks_df[i].customerState) * 10001

\* C3: late-compatibility.  After packing and after the fill step, a truck
\* holding a late assignment holds no assignment whose earliestDue is after
\* today.
C3_LateCompatible ==
  pc \in {"packed", "done"} =>
    \A i \in DOMAIN assigns_df : \A j \in DOMAIN assigns_df :
      (assigns_df[i].truckNumber = assigns_df[j].truckNumber /\ assigns_df[i].isLate)
        => ~DueAfterToday(assigns_df[j])

\* C4: group coherence and customer isolation.  After packing and during and
\* after the fill step, the assignments of one truck share zone, route,
\* customer, state and city; a truck carrying a no-multi-stop customer
\* carries that customer only.
C4_GroupCoherence ==
  Packed =>
    \A i \in DOMAIN assigns_df : \A j \in DOMAIN assigns_df :
      assigns_df[i].truckNumber = assigns_df[j].truckNumber
        => /\ assigns_df[i].zone = assigns_df[j].zone
           /\ assigns_df[i].route = assigns_df[j].route
           /\ assigns_df[i].customerName = assigns_df[j].customerName
           /\ assigns_df[i].customerState = assigns_df[j].customerState
           /\ assigns_df[i].customerCity = assigns_df[j].customerCity
           /\ (assigns_df[i].customerName \in NO_MULTI_STOP_CUSTOMERS
                 => assigns_df[j].customerName = assigns_df[i].customerName)

\* Two customers share a truck-sized destination and the fill step moved
\* an assignment onto a truck that already held one.
C4_Witness ==
  /\ pc = "done" /\ Moved
  /\ \E i \in DOMAIN df : \E j \in DOMAIN df :
       /\ df[i].Customer # df[j].Customer
       /\ df[i].Customer \in NO_MULTI_STOP_CUSTOMERS
       /\ df[i].shipping_city = df[j].shipping_city

\* C5: conservation of weight.  Every truck summary of the load plan carries
\* the sums over the assignments bearing its number: weight, pieces, lines
\* and distinct sales orders.
C5_TruckTotals ==
  pc \in {"packed", "done"} =>
    \A i \in DOMAIN trucks_df :
      LET own == OnTruck(assigns_df, trucks_df[i].truckNumber)
      IN /\ trucks_df[i].totalWeight = SumSeq(MapWeight(own))
         /\ trucks_df[i].totalPieces = SumSeq(MapPieces(own))
         /\ trucks_df[i].totalLines = Len(own)
         /\ trucks_df[i].totalOrders = Cardinality({own[k].so : k \in DOMAIN own})

\* The fill step moved an assignment and a truck carries two lines of one
\* sales order.
C5_Witness ==
  /\ pc = "done" /\ Moved
  /\ \E i \in DOMAIN trucks_df :
       trucks_df[i].totalLines >= 2 /\ trucks_df[i].totalOrders < trucks_df[i].totalLines

\* C7: the fill step is idempotent.  Applied to its own result it moves no
\* assignment and leaves every truck summary as it was.
C7_FillIdempotent ==
  (pc = "done" /\ applied = 2) =>
    /\ assigns_df = Val(first_out).assigns
    /\ trucks_df = Val(first_out).trucks

\* The second application has ended and the first one had moved assignments.
C7_Witness ==
  /\ pc = "done" /\ applied = 2 /\ Moved

\* C8: the move gate.  Whenever the fill step moves an assignment, the
\* target's weight after the move is within maxWeight * 1.0001 and, if the
\* target's bucket is Late, the assignment's earliestDue is not after today.
C8_MoveGate ==
  [][(pc = "fill" /\ assigns_df' # assigns_df) =>
       LET t == Val(fill.t)
           a == assigns_df[fill.cand[1]]
       IN /\ (t.weight + a.totalWeight) * 10000 <= t.max * 10001
          /\ ("Late" \in target_buckets(fill.pass) => ~DueAfterToday(a))]_vars

\* Everything of an assignment but its truckNumber.
RECURSIVE Unnumbered(_)
Unnumbered(assigns) ==
  IF assigns = <<>> THEN <<>>
  ELSE <<[assigns[1] EXCEPT !.truckNumber = 0]>> \o Unnumbered(Tail(assigns))

\* C9: frame of the fill step.  It changes nothing of an assignment but its
\* truckNumber and neither splits, adds nor drops assignments.
C9_FillFrame ==
  Packed => Unnumbered(assigns_df) = Unnumbered(st.assignment_rows)

C9_Witness ==
  /\ pc = "done" /\ Moved
  /\ \E i \in DOMAIN assigns_df : assigns_df[i].isPartial

\* C10: referential integrity of the load plan.  Every truck has an
\* assignment, every assignment's truckNumber names exactly one truck, and a
\* donor emptied by the fill step is not listed.
C10_Referential ==
  pc = "done" =>
    /\ \A i \in DOMAIN trucks_df : OnTruck(assigns_df, trucks_df[i].truckNumber) # <<>>
    /\ \A k \in DOMAIN assigns_df :
         Cardinality({i \in DOMAIN trucks_df :
                        trucks_df[i].truckNumber = assigns_df[k].truckNumber}) = 1

\* A truck the packer produced was emptied by the fill step.
C10_Witness ==
  /\ pc = "done"
  /\ \E i \in DOMAIN st.truck_rows :
       OnTruck(assigns_df, st.truck_rows[i].truckNumber) = <<>>

\* Every assignment made so far: those of the finalized trucks, then those
\* pending on the open truck (truckNumber 0 until the truck is finalized).
AllAssignments(state) == state.assignment_rows \o state.open.pending_assignments

\* How many of the assignments share the truck of assignment a.
TruckMates(assigns, a) ==
  Cardinality({k \in DOMAIN assigns : assigns[k].truckNumber = a.truckNumber})

AssignmentsOf(assigns, r) ==
  LET From(a) == SourceLine(a) = r.SO \o "-" \o r.Line
  IN SelectSeq(assigns, From)

\* C12: pieces as heavy as a truck.  In the load plan, a line of P pieces
\* whose per-piece weight equals the truck's maxWeight is on P trucks, one
\* piece on each, and those trucks carry nothing else.
C12_OnePiecePerTruck ==
  pc = "done" =>
    \A i \in DOMAIN df :
      df[i].WeightPerPiece = MaxWeightOf(df[i].shipping_state) =>
        LET own == AssignmentsOf(assigns_df, df[i])
        IN /\ Len(own) = df[i].RPcs
           /\ \A k \in DOMAIN own :
                /\ own[k].piecesOnTransport = 1
                /\ TruckMates(assigns_df, own[k]) = 1

\* C13: remainder tagging.  Whenever the packer makes an assignment that
\* leaves pieces of its line unplaced, the residual joins the group's
\* remainder queue; an assignment made from a fresh line is no remainder and
\* has no parentLine; an assignment made in remainder iteration k is a
\* remainder of a line of the same group, has that line's "SO-Line" as
\* parentLine and is named "<Line>-Rk".
C13_RemainderTagging ==
  [][LET before == AllAssignments(st)
         after == AllAssignments(st')
         new == after[Len(after)]
         queued == pending_remainders'[Len(pending_remainders')]
     IN (pc \in {"fresh", "remainders"} /\ Len(after) = Len(before) + 1) =>
          /\ new.remainingPieces > 0 =>
                /\ Len(pending_remainders') = Len(pending_remainders) + 1
                /\ queued.RPcs = new.remainingPieces
                /\ grouping_cols(queued)
                     = grouping_cols(IF pc = "fresh" THEN rows[1] ELSE current_remainders[1])
          /\ IF pc = "fresh"
             THEN /\ ~new.isRemainder /\ IsNone(new.parentLine)
                  /\ new.so = rows[1].SO /\ new.line = rows[1].Line
             ELSE /\ new.isRemainder
                  /\ \E i \in DOMAIN df :
                       /\ new.parentLine = Some(df[i].SO \o "-" \o df[i].Line)
                       /\ new.so = df[i].SO
                       /\ new.line = df[i].Line \o "-R" \o ToString(iteration_count)
                       /\ new.customerName = df[i].Customer
                       /\ new.customerState = df[i].shipping_state
                       /\ new.customerCity = df[i].shipping_city
                       /\ new.zone = Val(g).zone_val /\ df[i].Zone = Val(g).zone_val
                       /\ new.route = Val(g).route_val /\ df[i].Route = Val(g).route_val
                       /\ new.piecesOnTransport + PiecesPlaced(before, df[i])
                            <= df[i].RPcs]_vars

\* Scenario B in the plan: 30 pieces of 2000 lb for a 48000 lb truck are 24
\* pieces as "L1" on truck 1 and 6 pieces as "L1-R1" on truck 2.
C13_Witness ==
  /\ pc = "done"
  /\ \E i \in DOMAIN assigns_df : \E j \in DOMAIN assigns_df :
       /\ assigns_df[i].line = "L1" /\ assigns_df[i].piecesOnTransport = 24
       /\ assigns_df[i].truckNumber = 1 /\ ~assigns_df[i].isRemainder
       /\ assigns_df[j].line = "L1-R1" /\ assigns_df[j].piecesOnTransport = 6
       /\ assigns_df[j].truckNumber = 2 /\ assigns_df[j].isRemainder
       /\ assigns_df[j].parentLine = Some("SO1-L1")
       /\ assigns_df[j].totalWeight = 12000

\* main.optimize, lines 366-370: bucket -> the truck numbers of the bucket.
sections(trucks) ==
  [b \in {trucks[i].priorityBucket : i \in DOMAIN trucks} |->
     LET In(t) == t.priorityBucket = b
         chosen == SelectSeq(trucks, In)
     IN [k \in DOMAIN chosen |-> chosen[k].truckNumber]]

\* The body of the response of /optimize (main.py, lines 385-389).
OptimizeResponse ==
  [trucks |-> trucks_df, assignments |-> assigns_df, sections |-> sections(trucks_df)]

\* C14: unroutable lines.  In the response of a planning request, a line
\* whose per-piece weight exceeds the truck's maxWeight has no piece on any
\* truck and is listed as unroutable with the reason
\* piece_weight_exceeds_truck_capacity, and the other lines are planned.
C14_Unroutable ==
  pc = "done" =>
    \A i \in DOMAIN df :
      IF df[i].WeightPerPiece > MaxWeightOf(df[i].shipping_state)
      THEN /\ AssignmentsOf(assigns_df, df[i]) = <<>>
           /\ "unroutable" \in DOMAIN OptimizeResponse
           /\ \E k \in DOMAIN OptimizeResponse.unroutable :
                LET u == OptimizeResponse.unroutable[k]
                IN /\ u.SO = df[i].SO /\ u.Line = df[i].Line
                   /\ u.reason = "piece_weight_exceeds_truck_capacity"
      ELSE df[i].RPcs <= max_remainder_iterations
             => PiecesPlaced(assigns_df, df[i]) = df[i].RPcs

\* =====================================================================
\* Addresses and the geocoding job (excel_utils.py, geocode_service.py,
\* main.geocode_validate)
\* =====================================================================
\* Address text is a sequence of one-character strings, so that strip(),
\* lower(), upper() and the character filter of make_normalized_key are
\* computed.  Python's None and "" are both the empty sequence: every use
\* below goes through `x or ""`.
UpperAlphabet ==
  <<"A", "B", "C", "D", "E", "F", "G", "H", "I", "J", "K", "L", "M",
    "N", "O", "P", "Q", "R", "S", "T", "U", "V", "W", "X", "Y", "Z">>
LowerAlphabet ==
  <<"a", "b", "c", "d", "e", "f", "g", "h", "i", "j", "k", "l", "m",
    "n", "o", "p", "q", "r", "s", "t", "u", "v", "w", "x", "y", "z">>
DigitChars == {"0", "1", "2", "3", "4", "5", "6", "7", "8", "9"}

InSeq(seq, c) == \E i \in 1..Len(seq) : seq[i] = c
IndexIn(seq, c) == CHOOSE i \in 1..Len(seq) : seq[i] = c

\* str.lower() and str.upper()
str_lower(s) ==
  [i \in 1..Len(s) |->
     IF InSeq(UpperAlphabet, s[i]) THEN LowerAlphabet[IndexIn(UpperAlphabet, s[i])]
     ELSE s[i]]
str_upper(s) ==
  [i \in 1..Len(s) |->
     IF InSeq(LowerAlphabet, s[i]) THEN UpperAlphabet[IndexIn(LowerAlphabet, s[i])]
     ELSE s[i]]

\* str.strip()
RECURSIVE lstrip(_)
lstrip(s) == IF s # <<>> /\ Head(s) = " " THEN lstrip(Tail(s)) ELSE s
RECURSIVE rstrip(_)
rstrip(s) ==
  IF s # <<>> /\ s[Len(s)] = " " THEN rstrip(SubSeq(s, 1, Len(s) - 1)) ELSE s
str_strip(s) == rstrip(lstrip(s))

\* re.sub(r"\s+", " ", s)
RECURSIVE collapse_spaces(_)
collapse_spaces(s) ==
  IF Len(s) < 2 THEN s
  ELSE IF s[1] = " " /\ s[2] = " " THEN collapse_spaces(Tail(s))
  ELSE <<s[1]>> \o collapse_spaces(Tail(s))

\* sep.join(parts)
RECURSIVE str_join(_, _)
str_join(parts, sep) ==
  IF parts = <<>> THEN <<>>
  ELSE IF Len(parts) = 1 THEN parts[1]
  ELSE parts[1] \o sep \o str_join(Tail(parts), sep)

\* excel_utils.normalize_address_parts, lines 227-232
MX_STATE_CODES ==
  {<<"A", "G", "U">>, <<"B", "C", "N">>, <<"B", "C", "S">>, <<"C", "A", "M">>,
   <<"C", "H", "P">>, <<"C", "H", "H">>, <<"C", "H">>, <<"C", "M", "X">>,
   <<"C", "O", "A">>, <<"C", "O", "L">>, <<"D", "U", "R">>, <<"G", "U", "A">>,
   <<"G", "R", "O">>, <<"H", "I", "D">>, <<"J", "A", "L">>, <<"M", "E", "X">>,
   <<"M", "I", "C">>, <<"M", "O", "R">>, <<"N", "A", "Y">>, <<"N", "L", "E">>,
   <<"O", "A", "X">>, <<"P", "U", "E">>, <<"Q", "U", "E">>, <<"R", "O", "O">>,
   <<"S", "L", "P">>, <<"S", "I", "N">>, <<"S", "O", "N">>, <<"T", "A", "B">>,
   <<"T", "A", "M">>, <<"T", "L", "A">>, <<"V", "E", "R">>, <<"Y", "U", "C">>,
   <<"Z", "A", "C">>}
USA == <<"U", "S", "A">>
Mexico == <<"M", "e", "x", "i", "c", "o">>

\* excel_utils.normalize_address_parts, lines 210-236
zip_digits(z) ==
  LET d == SelectSeq(z, LAMBDA c : c \in DigitChars)
  IN  SubSeq(d, 1, Min2(Len(d), 10))
normalize_address_parts(street, city, state, zip_code) ==
  LET state_c == str_upper(str_strip(state))
  IN  [street  |-> str_strip(street),
       city    |-> str_strip(city),
       state   |-> state_c,
       zip     |-> zip_digits(str_strip(zip_code)),
       country |-> IF str_upper(state_c) \in MX_STATE_CODES THEN Mexico ELSE USA]

\* excel_utils.make_normalized_key, lines 239-250: the last substitution
\* keeps lower-case letters, digits, commas and blanks only.
KeyChars == {LowerAlphabet[i] : i \in 1..Len(LowerAlphabet)} \cup DigitChars \cup {",", " "}
make_normalized_key(parts) ==
  LET comp == <<str_lower(str_strip(parts.street)),
                str_lower(str_strip(parts.city)),
                str_upper(str_strip(parts.state)),
                str_strip(parts.zip),
                str_strip(IF parts.country = <<>> THEN USA ELSE parts.country)>>
      joined == collapse_spaces(str_join(comp, <<",">>))
  IN  SelectSeq(joined, LAMBDA c : c \in KeyChars)

\* geocode_service.build_address_query, lines 119-122
build_address_query(parts) ==
  str_join(SelectSeq(<<parts.street, parts.city, parts.state, parts.zip, USA>>,
                     LAMBDA c : str_strip(c) # <<>>),
           <<",", " ">>)

\* DataFrame.drop_duplicates(): the first of equal rows is kept.
RECURSIVE drop_duplicates(_)
drop_duplicates(rs) ==
  IF rs = <<>> THEN <<>>
  ELSE LET front == drop_duplicates(SubSeq(rs, 1, Len(rs) - 1))
           last  == rs[Len(rs)]
       IN  IF \E i \in 1..Len(front) : front[i] = last THEN front
           ELSE Append(front, last)

\* excel_utils.extract_unique_addresses, lines 253-276, of the address
\* columns (street, city, state, zip) of the filtered sheet.
extract_unique_addresses(address_rows) ==
  LET unique_rows == drop_duplicates(address_rows)
  IN  [i \in 1..Len(unique_rows) |->
         LET r     == unique_rows[i]
             parts == normalize_address_parts(r.street, r.city, r.state, r.zip)
         IN  [street |-> parts.street, city |-> parts.city, state |-> parts.state,
              zip |-> parts.zip, country |-> parts.country,
              normalized |-> make_normalized_key(parts)]]

\* The address columns of the uploaded rows: the same street written in two
\* cases, the same street and city in two states, and another street.
AddressRow(street, city, state, zip) ==
  [street |-> street, city |-> city, state |-> state, zip |-> zip]
Waco == <<"W", "a", "c", "o">>
Zip76701 == <<"7", "6", "7", "0", "1">>
AddressRows ==
  <<AddressRow(<<"1", " ", "M", "a", "i", "n">>, Waco, <<"T", "X">>, Zip76701),
    AddressRow(<<"1", " ", "M", "A", "I", "N">>, Waco, <<"T", "X">>, Zip76701),
    AddressRow(<<"1", " ", "M", "a", "i", "n">>, Waco, <<"O", "K">>, Zip76701),
    AddressRow(<<"2", " ", "E", "l", "m", " ">>, Waco, <<"t", "x">>, <<"7", "6", "7", "0", "1", "-", "2">>)>>

\* The uploads of the geocoding job: up to MaxAddrs address rows, in sheet
\* order, a row possibly repeated.
MaxAddrs == 2
AddressSheets ==
  UNION {{[i \in 1..n |-> AddressRows[f[i]]] :
            f \in {h \in [1..n -> 1..Len(AddressRows)] :
                     \A i \in 1..n, j \in 1..n : i <= j => h[i] <= h[j]}} :
         n \in 0..MaxAddrs}

\* What the provider answers to one query: coordinates (whole degrees stand
\* for the floats), or a failure (GeocodeError, a timeout, any exception).
ProviderAnswers == {[lat |-> 31, lng |-> 0 - 97], [lat |-> 32, lng |-> 0 - 96]}
ProviderOutcomes == {Some(a) : a \in ProviderAnswers} \cup {None}

\* A second upload of the same file is modelled up to MaxJobs jobs.
MaxJobs == 2

\* No planning request is under way.
PlanIdle ==
  /\ pc = "idle"
  /\ sheet = <<>>
  /\ df = <<>>
  /\ groups = <<>>
  /\ g = None
  /\ rows = <<>>
  /\ st = empty_state
  /\ pending_remainders = <<>>
  /\ current_remainders = <<>>
  /\ iteration_count = 0
  /\ trucks_df = <<>>
  /\ assigns_df = <<>>
  /\ fill = idle_fill
  /\ applied = 0
  /\ first_out = None

\* The locals of geocode_validate at line 428-431 and 460-468.
GeoJob(input, api_key, dsn, run, log) ==
  [kind         |-> "geocode",
   input        |-> input,
   api_key      |-> api_key,
   dsn          |-> dsn,
   run          |-> run,
   addrs        |-> extract_unique_addresses(input),
   cache_map    |-> <<>>,
   enriched     |-> <<>>,
   cache_hits   |-> 0,
   api_calls    |-> 0,
   failures     |-> 0,
   new_geocodes |-> <<>>,
   cache_misses |-> <<>>,
   futures      |-> {},
   log          |-> log]

\* One entry of `enriched`; a key the code does not set is None.
Item(addr, latitude, longitude, source, error, note) ==
  [addr |-> addr, latitude |-> latitude, longitude |-> longitude,
   source |-> source, error |-> error, note |-> note]

\* What the job did to the cache and the provider, in order.
Event(run, ev, key, ok, answer) ==
  [run |-> run, ev |-> ev, key |-> key, ok |-> ok, answer |-> answer]

\* geocode_validate, lines 440-454: the rows of address_cache whose key is
\* one of the upload's keys.
batch_cache_lookup(cache, addrs) ==
  LET keys == {addrs[i].normalized : i \in 1..Len(addrs)} \cap DOMAIN cache
  IN  [k \in keys |-> cache[k]]

\* geocode_validate, lines 469-485: hits go to `enriched`, the others to
\* `cache_misses`.
cache_hit_items(addrs, cache_map) ==
  LET hits == SelectSeq(addrs, LAMBDA a : a.normalized \in DOMAIN cache_map)
  IN  [i \in 1..Len(hits) |->
         Item(hits[i], Some(cache_map[hits[i].normalized].latitude),
              Some(cache_map[hits[i].normalized].longitude), Some("cache"), None, None)]
cache_miss_addrs(addrs, cache_map) ==
  SelectSeq(addrs, LAMBDA a : a.normalized \notin DOMAIN cache_map)

\* geocode_validate, lines 433-485.  The lookup fails as a whole when the
\* database cannot be reached; cache_map then stays empty.
GeoCacheLookup ==
  /\ rpc = "geocode_validate"
  /\ \E reachable \in (IF job.dsn THEN BOOLEAN ELSE {FALSE}) :
       LET cache_map == IF reachable THEN batch_cache_lookup(address_cache, job.addrs)
                        ELSE <<>>
           misses    == cache_miss_addrs(job.addrs, cache_map)
           hits      == cache_hit_items(job.addrs, cache_map)
       IN  /\ job' = [job EXCEPT
                        !.cache_map = cache_map,
                        !.enriched = hits,
                        !.cache_hits = Len(hits),
                        !.cache_misses = misses,
                        !.futures = IF job.api_key THEN 1..Len(misses) ELSE {},
                        !.log = IF job.dsn
                                THEN Append(@, Event(job.run, "lookup", <<>>, reachable, None))
                                ELSE @]
           /\ rpc' = IF misses # <<>> /\ job.api_key THEN "geocoding"
                     ELSE IF misses # <<>> THEN "no_api_key"
                     ELSE "cache_write"
  /\ UNCHANGED <<address_cache, response, no_multi_stop>>
  /\ UNCHANGED plan_vars
  /\ UNCHANGED distance_cache

\* geocode_result keeping only the result of the future that completed last.
geocode_result_last_only(j, i, outcome) ==
  LET addr == j.cache_misses[i]
  IN  IF outcome = None
      THEN [j EXCEPT
              !.enriched = <<Item(addr, None, None, None, Some("GEOCODE_FAILED"), None)>>,
              !.failures = @ + 1]
      ELSE [j EXCEPT
              !.enriched = <<Item(addr, Some(outcome[1].lat), Some(outcome[1].lng),
                                  Some("google"), None, None)>>,
              !.new_geocodes = Append(@, [normalized |-> addr.normalized, parts |-> addr,
                                          lat |-> outcome[1].lat, lng |-> outcome[1].lng]),
              !.api_calls = @ + 1]

\* geocode_validate, lines 510-529: the body of the as_completed loop for
\* the future of cache_misses[i] with the provider's outcome.
geocode_result(j, i, outcome) ==
  LET addr == j.cache_misses[i]
  IN  IF outcome = None
      THEN [j EXCEPT
              !.enriched = Append(@, Item(addr, None, None, None, Some("GEOCODE_FAILED"), None)),
              !.failures = @ + 1]
      ELSE [j EXCEPT
              !.enriched = Append(@, Item(addr, Some(outcome[1].lat), Some(outcome[1].lng),
                                          Some("google"), None, None)),
              !.new_geocodes = Append(@, [normalized |-> addr.normalized, parts |-> addr,
                                          lat |-> outcome[1].lat, lng |-> outcome[1].lng]),
              !.api_calls = @ + 1]

\* geocode_validate, lines 488-529: one future of the pool completes; the
\* futures complete in any order.
GeoFutureCompletes ==
  /\ rpc = "geocoding"
  /\ \E i \in job.futures, outcome \in ProviderOutcomes :
       LET j1 == geocode_result(job, i, outcome)
       IN  /\ job' = [j1 EXCEPT
                        !.futures = @ \ {i},
                        !.log = Append(@, Event(job.run, "geocode",
                                                job.cache_misses[i].normalized,
                                                outcome # None, outcome))]
           /\ rpc' = IF job.futures = {i} THEN "cache_write" ELSE "geocoding"
  /\ UNCHANGED <<address_cache, response, no_multi_stop>>
  /\ UNCHANGED plan_vars
  /\ UNCHANGED distance_cache

\* geocode_validate, lines 530-535: misses without an API key.
GeoNoApiKey ==
  /\ rpc = "no_api_key"
  /\ job' = [job EXCEPT
               !.enriched = @ \o [i \in 1..Len(job.cache_misses) |->
                                    Item(job.cache_misses[i], None, None, None, None,
                                         Some("No API key configured"))]]
  /\ rpc' = "cache_write"
  /\ UNCHANGED <<address_cache, response, no_multi_stop>>
  /\ UNCHANGED plan_vars
  /\ UNCHANGED distance_cache

\* The upsert of one row: `on conflict (normalized) do update`.
upsert(cache, row) ==
  [k \in DOMAIN cache \cup {row.normalized} |->
     IF k = row.normalized THEN [latitude |-> row.lat, longitude |-> row.lng]
     ELSE cache[k]]

\* geocode_validate, lines 542-568: executemany of the upsert over
\* new_geocodes, in order, in one transaction.
batch_cache_write_skipped(cache, new_geocodes) == cache
RECURSIVE batch_cache_write(_, _)
batch_cache_write(cache, new_geocodes) ==
  IF new_geocodes = <<>> THEN cache
  ELSE batch_cache_write(upsert(cache, Head(new_geocodes)), Tail(new_geocodes))

\* geocode_validate, lines 574-580
geocode_response(j) ==
  [count |-> Len(j.enriched), addresses |-> j.enriched, cache_hits |-> j.cache_hits,
   api_calls |-> j.api_calls, failures |-> j.failures]

\* geocode_validate, lines 537-580: the batch write, whose failure is only
\* printed, and the response.
GeoCacheWrite ==
  /\ rpc = "cache_write"
  /\ IF job.dsn /\ job.new_geocodes # <<>>
     THEN \E committed \in BOOLEAN :
            /\ address_cache' = IF committed
                                THEN batch_cache_write(address_cache, job.new_geocodes)
                                ELSE address_cache
            /\ job' = [job EXCEPT !.log = Append(@, Event(job.run, "write", <<>>, committed, None))]
     ELSE UNCHANGED <<address_cache, job>>
  /\ response' = geocode_response(job)
  /\ rpc' = "geocode_done"
  /\ UNCHANGED no_multi_stop
  /\ UNCHANGED plan_vars
  /\ UNCHANGED distance_cache

\* The same file is uploaded again.
GeoReplay ==
  /\ rpc = "geocode_done"
  /\ job.run < MaxJobs
  /\ job' = GeoJob(job.input, job.api_key, job.dsn, job.run + 1, job.log)
  /\ response' = None
  /\ rpc' = "geocode_validate"
  /\ UNCHANGED <<address_cache, no_multi_stop>>
  /\ UNCHANGED plan_vars
  /\ UNCHANGED distance_cache

InitGeo ==
  /\ PlanIdle
  /\ rpc = "geocode_validate"
  /\ address_cache = <<>>
  /\ distance_cache = <<>>
  /\ \E input \in AddressSheets, api_key \in BOOLEAN, dsn \in BOOLEAN :
       job = GeoJob(input, api_key, dsn, 1, <<>>)
  /\ response = None
  /\ no_multi_stop = NO_MULTI_STOP_CUSTOMERS

NextGeo ==
  \/ GeoCacheLookup
  \/ GeoFutureCompletes
  \/ GeoNoApiKey
  \/ GeoCacheWrite
  \/ GeoReplay

SpecGeo == InitGeo /\ [][NextGeo]_vars

\* ------------------------------------------------------------ claim C17
\* What the log says of one job.
EventsOf(run, ev) ==
  {job.log[i] : i \in {n \in 1..Len(job.log) : job.log[n].run = run /\ job.log[n].ev = ev}}
LookupReached(run) == \E e \in EventsOf(run, "lookup") : e.ok
WriteCommitted(run) == \E e \in EventsOf(run, "write") : e.ok
ProviderCalls(run) == {e.key : e \in EventsOf(run, "geocode")}
GeocodedKeys(run) == {e.key : e \in {x \in EventsOf(run, "geocode") : x.ok}}
FailedKeys(run) == ProviderCalls(run) \ GeocodedKeys(run)

\* C17: geocode write-through.  When a key missed the cache in one job, the
\* provider geocoded it and the cache was reachable (the lookup and the batch
\* write went through), a later upload of the same file, with the cache
\* reachable, makes no provider call for that key and answers every address
\* of that key from the cache.  The cache never holds a key whose geocoding
\* failed: every row of address_cache carries the coordinates of a successful
\* provider answer for its key.
C17_WriteThrough ==
  /\ \A r1 \in 1..MaxJobs, r2 \in 1..MaxJobs :
       (r1 < r2 /\ r2 <= job.run /\ LookupReached(r1) /\ WriteCommitted(r1) /\ LookupReached(r2))
       => \A k \in GeocodedKeys(r1) :
            /\ k \notin ProviderCalls(r2)
            /\ (r2 = job.run /\ rpc = "geocode_done")
               => \A n \in 1..Len(response.addresses) :
                    response.addresses[n].addr.normalized = k
                    => /\ response.addresses[n].source = Some("cache")
                       /\ response.addresses[n].latitude = Some(address_cache[k].latitude)
                       /\ response.addresses[n].longitude = Some(address_cache[k].longitude)
  /\ \A k \in DOMAIN address_cache :
       \E r \in 1..MaxJobs : \E e \in EventsOf(r, "geocode") :
         /\ e.key = k /\ e.ok
         /\ address_cache[k] = [latitude |-> e.answer[1].lat, longitude |-> e.answer[1].lng]

\* A replay has finished: in the first job one key was geocoded and written
\* and another key failed; the replay answered the first from the cache
\* without a provider call, and the failed key, failing again, is in no row.
C17_Witness ==
  /\ rpc = "geocode_done" /\ job.run = 2
  /\ LookupReached(1) /\ WriteCommitted(1) /\ LookupReached(2)
  /\ \E k1 \in GeocodedKeys(1), k2 \in FailedKeys(1) :
       /\ k1 # k2
       /\ k1 \notin ProviderCalls(2)
       /\ k2 \in FailedKeys(2)
       /\ k2 \notin DOMAIN address_cache
       /\ \E n \in 1..Len(response.addresses) :
            /\ response.addresses[n].addr.normalized = k1
            /\ response.addresses[n].source = Some("cache")
       /\ \E n \in 1..Len(response.addresses) :
            /\ response.addresses[n].addr.normalized = k2
            /\ response.addresses[n].error = Some("GEOCODE_FAILED")
  /\ response.cache_hits = 1 /\ response.api_calls = 0 /\ response.failures = 1

\* =====================================================================
\* The route solver (vrp_solver.py)
\* =====================================================================
\* solve_vrp's defaults, lines 109-111, and its cap on vehicles, line 146.
max_weight_per_truck == 52000
max_drive_time_minutes == 720
service_time_per_stop_minutes == 30
max_num_vehicles == 50

\* vrp_solver.Stop, lines 19-30.
Stop(customer_name, city, state, latitude, longitude, weight, pieces, order_id, line_id) ==
  [customer_name |-> customer_name, city |-> city, state |-> state,
   latitude |-> latitude, longitude |-> longitude, weight |-> weight,
   pieces |-> pieces, order_id |-> order_id, line_id |-> line_id]

\* Nodes are numbered as in the code: 0 is the depot, node i is stops[i - 1]
\* of the code and stops[i] of the model.  A matrix is a function on
\* (0..n) \X (0..n).
Nodes(n) == 0..n

\* The legs of a path of nodes that starts at the depot: depot -> p[1],
\* p[1] -> p[2], ..., p[k-1] -> p[k].
path_legs(p) ==
  [i \in 1..Len(p) |-> <<IF i = 1 THEN 0 ELSE p[i - 1], p[i]>>]
\* The same with the leg back to the depot, p[k] -> depot.
round_trip_legs(p) ==
  IF p = <<>> THEN <<>> ELSE Append(path_legs(p), <<p[Len(p)], 0>>)
legs_total(matrix, legs) == SumSeq([i \in DOMAIN legs |-> matrix[legs[i]]])

\* The paths a vehicle may drive: distinct stops in some order.
Paths(n) ==
  {p \in UNION {[1..k -> 1..n] : k \in 0..n} :
     \A i \in DOMAIN p, j \in DOMAIN p : i # j => p[i] # p[j]}

\* solve_vrp, lines 139-233: what SolveWithParameters may return.  Vehicle v
\* drives path sol[v]; a stop is on at most one path and a stop on none is
\* dropped (the disjunctions of lines 210-212).  The Capacity dimension
\* (lines 181-187) bounds the load of a path, the Time dimension (lines
\* 191-197, transit = the duration matrix, no service time) bounds its time
\* from the depot back to the depot.  The search is a heuristic with a time
\* limit, so any solution meeting the constraints may come back; no solution
\* at all (lines 235-237) gives the routes of the solution that drops every
\* stop.
Solutions(stops, duration_matrix, capacity, max_time) ==
  LET n == Len(stops)
      num_vehicles == Min2(max_num_vehicles, n)
  IN  {sol \in [1..num_vehicles -> Paths(n)] :
         /\ \A v \in 1..num_vehicles, w \in 1..num_vehicles :
              v # w => {sol[v][i] : i \in DOMAIN sol[v]} \cap {sol[w][i] : i \in DOMAIN sol[w]} = {}
         /\ \A v \in 1..num_vehicles :
              /\ SumSeq([i \in DOMAIN sol[v] |-> stops[sol[v][i]].weight]) <= capacity
              /\ legs_total(duration_matrix, round_trip_legs(sol[v])) <= max_time}

\* vrp_solver.Route, lines 36-44, as built at lines 246-290 for the vehicle
\* vehicle_id (0-based) driving path p: distance and time are added for
\* every step of the walk whose target is not the end of the route.
extract_route(stops, distance_matrix, duration_matrix, service_time, vehicle_id, p) ==
  [truck_id               |-> vehicle_id + 1,
   stops                  |-> [i \in DOMAIN p |-> stops[p[i]]],
   stop_sequence          |-> [i \in DOMAIN p |-> p[i] - 1],
   total_distance_miles   |-> legs_total(distance_matrix, path_legs(p)),
   total_duration_minutes |-> legs_total(duration_matrix, path_legs(p))
                                + Len(p) * service_time,
   total_weight           |-> SumSeq([i \in DOMAIN p |-> stops[p[i]].weight]),
   total_pieces           |-> SumSeq([i \in DOMAIN p |-> stops[p[i]].pieces])]

\* solve_vrp, lines 241-290: the routes of the vehicles that visit a stop,
\* in vehicle order.
RECURSIVE extract_routes(_, _, _, _, _, _)
extract_routes(stops, distance_matrix, duration_matrix, service_time, sol, v) ==
  IF v > Len(sol) THEN <<>>
  ELSE (IF sol[v] = <<>> THEN <<>>
        ELSE <<extract_route(stops, distance_matrix, duration_matrix, service_time,
                             v - 1, sol[v])>>)
       \o extract_routes(stops, distance_matrix, duration_matrix, service_time, sol, v + 1)

\* solve_vrp, lines 103-290: the lists of routes it may return.
solve_vrp(stops, distance_matrix, duration_matrix, capacity, max_time, service_time) ==
  IF stops = <<>> THEN {<<>>}
  ELSE {extract_routes(stops, distance_matrix, duration_matrix, service_time, sol, 1) :
          sol \in Solutions(stops, duration_matrix, capacity, max_time)}

\* ---- solve_vrp called on its own
\* Stops of up to MaxStops loads and the matrices of their depot and
\* locations: a load lighter than half a truck, one heavier, one heavier than
\* a truck; a leg of three quarters of an hour, of one hour, of five and a
\* half or of nearly seven, a little longer on the way back; miles at one of
\* two speeds.
MaxStops == 2
StopWeights == {20000, 40000, 60000}
LegMinutes == {45, 60, 335, 400}
MilesPerHour == {30, 60}
StopLists ==
  UNION {{[i \in 1..n |->
             Stop("C" \o ToString(i), "City" \o ToString(i), "TX", 30 + i, 0 - 97,
                  w[i], i, "C" \o ToString(i), "1 lines")] :
            w \in [1..n -> StopWeights]} : n \in 0..MaxStops}
DurationMatrices(n) ==
  {[e \in Nodes(n) \X Nodes(n) |->
      IF e[1] = e[2] THEN 0
      ELSE IF e[1] < e[2] THEN m[<<e[1], e[2]>>]
      ELSE m[<<e[2], e[1]>>] + 5] :
     m \in [{e \in Nodes(n) \X Nodes(n) : e[1] < e[2]} -> LegMinutes]}
distance_of(duration_matrix, mph) ==
  [e \in DOMAIN duration_matrix |-> (duration_matrix[e] * mph) \div 60]

\* A direct call solve_vrp(stops, depot_lat, depot_lng, distance_matrix,
\* duration_matrix) with the defaults of its signature.
VrpJob(stops, distance_matrix, duration_matrix) ==
  [kind |-> "solve_vrp", stops |-> stops, distance_matrix |-> distance_matrix,
   duration_matrix |-> duration_matrix]

InitVrp ==
  /\ PlanIdle
  /\ rpc = "solve_vrp"
  /\ address_cache = <<>>
  /\ distance_cache = <<>>
  /\ \E stops \in StopLists :
       \E dur \in DurationMatrices(Len(stops)), mph \in MilesPerHour :
         job = VrpJob(stops, distance_of(dur, mph), dur)
  /\ response = None
  /\ no_multi_stop = NO_MULTI_STOP_CUSTOMERS

\* solve_vrp, lines 136-290: the call returns one of its possible results.
SolveVrp ==
  /\ rpc = "solve_vrp"
  /\ \E routes \in solve_vrp(job.stops, job.distance_matrix, job.duration_matrix,
                            max_weight_per_truck, max_drive_time_minutes,
                            service_time_per_stop_minutes) :
       response' = routes
  /\ rpc' = "solve_vrp_returned"
  /\ UNCHANGED <<address_cache, job, no_multi_stop>>
  /\ UNCHANGED plan_vars
  /\ UNCHANGED distance_cache

NextVrp == SolveVrp

SpecVrp == InitVrp /\ [][NextVrp]_vars

\* ------------------------------------------------------------ claim C19
\* C19: route totals.  Every route that solve_vrp returns, visiting the stops
\* s1..sk, has total_duration_minutes equal to the matrix durations of the
\* legs depot->s1, s1->s2, ..., sk->depot plus the service time for its k
\* stops, and total_distance_miles equal to the matrix distances of the same
\* legs.
C19_RouteTotals ==
  rpc = "solve_vrp_returned" =>
    \A r \in DOMAIN response :
      LET p == [i \in DOMAIN response[r].stop_sequence |-> response[r].stop_sequence[i] + 1]
      IN  /\ response[r].total_duration_minutes
               = legs_total(job.duration_matrix, round_trip_legs(p))
                 + service_time_per_stop_minutes * Len(p)
          /\ response[r].total_distance_miles
               = legs_total(job.distance_matrix, round_trip_legs(p))

\* =====================================================================
\* Routing requests (main.route_optimize_v1, main.route_optimize_phase2)
\* =====================================================================
\* Form defaults of the two handlers (main.py, lines 1048-1051, 1193-1197).
maxWeightPerTruck == 52000
maxDriveTimeMinutes == 720
serviceTimePerStopMinutes == 30
maxTrucks == 50

\* The depot when the depot table gives none (lines 1081-1084, 1264-1267),
\* in whole degrees.
depot_point == [lat |-> 33, lng |-> 0 - 97]

\* An HTTPException of the handler, or the 500 of an exception nothing
\* catches.
HttpError(status, detail) == [status |-> status, detail |-> detail]

\* The rows of a routing upload: an address of AddressRows, a customer, a
\* quantity of Quantities.  Kinds: a light line in Waco TX, the same customer
\* with the same street in Waco OK, another customer, a site heavier than a
\* truck, and a line whose pieces are heavier than a truck.
MaxRouteRows == 2
RouteKinds ==
  <<<<1, "Acme", 2>>, <<3, "Acme", 2>>, <<4, "Sabre", 1>>, <<1, "Acme", 4>>,
    <<1, "Acme", 9>>>>
RouteRow(i, k) ==
  [SO |-> "SO" \o ToString(i), Line |-> "L" \o ToString(i), Customer |-> k[2],
   Zone |-> None, Route |-> None,
   street |-> AddressRows[k[1]].street, shipping_city |-> AddressRows[k[1]].city,
   shipping_state |-> AddressRows[k[1]].state, zip |-> AddressRows[k[1]].zip]
    @@ DueWindows[3] @@ Quantities[k[3]]
RouteSheets ==
  UNION {{[i \in 1..n |-> RouteRow(i, RouteKinds[f[i]])] :
            f \in {h \in [1..n -> 1..Len(RouteKinds)] :
                     \A i \in 1..n, j \in 1..n : i <= j => h[i] <= h[j]}} :
         n \in 0..MaxRouteRows}

\* What the distance provider and the straight-line estimate answer for a
\* pair of points: minutes per degree of separation, miles at a mile a
\* minute.  One provider answers an hour per degree, the other five.
Abs(x) == IF x < 0 THEN 0 - x ELSE x
degrees_apart(a, b) == Abs(a.lat - b.lat) + Abs(a.lng - b.lng)
MinutesPerDegree == {60, 300}
pair_minutes(w, a, b) == w * degrees_apart(a, b)
pair_miles(w, a, b) == w * degrees_apart(a, b)

\* Python's order of str on the characters of the addresses.
AsciiOrder ==
  <<" ", ",", "-", "0", "1", "2", "3", "4", "5", "6", "7", "8", "9">>
    \o UpperAlphabet \o <<"|">> \o LowerAlphabet
text_ord(s) == [i \in 1..Len(s) |-> IndexIn(AsciiOrder, s[i])]
RECURSIVE ord_less(_, _)
ord_less(a, b) ==
  IF b = <<>> THEN FALSE
  ELSE IF a = <<>> THEN TRUE
  ELSE IF a[1] # b[1] THEN a[1] < b[1]
  ELSE ord_less(Tail(a), Tail(b))

\* main._infer_country_from_state, lines 823-831
infer_country_from_state(state) ==
  IF str_upper(str_strip(state)) \in MX_STATE_CODES THEN Mexico ELSE USA

\* main._aggregate_sites, lines 851-855: the group key of a row and the
\* order groupby gives the keys.
site_key(r) ==
  <<r.Customer, r.shipping_city, r.shipping_state, infer_country_from_state(r.shipping_state)>>
site_key_ord(k) ==
  <<StrOrd(k[1])>> \o text_ord(k[2]) \o <<0>> \o text_ord(k[3]) \o <<0>> \o text_ord(k[4])
RECURSIVE sort_site_keys(_)
sort_site_keys(K) ==
  IF K = {} THEN <<>>
  ELSE LET k == CHOOSE x \in K : \A y \in K \ {x} : ord_less(site_key_ord(x), site_key_ord(y))
       IN  <<k>> \o sort_site_keys(K \ {k})

\* main._aggregate_sites, lines 855-896, for one group.
site_lines(grp) ==
  LET kept == SelectSeq(grp, LAMBDA r : r.RPcs > 0 /\ r.ReadyWeight > 0)
  IN  [i \in 1..Len(kept) |->
         [SO |-> kept[i].SO, Line |-> kept[i].Line, RPcs |-> kept[i].RPcs,
          ReadyWeight |-> kept[i].ReadyWeight, WeightPerPiece |-> kept[i].WeightPerPiece]]
site_of(key, grp) ==
  [site_id      |-> key,
   customer     |-> key[1],
   city         |-> key[2],
   state        |-> key[3],
   country      |-> key[4],
   total_weight |-> SumSeq([i \in 1..Len(grp) |-> grp[i].ReadyWeight]),
   total_pieces |-> SumSeq([i \in 1..Len(grp) |-> grp[i].RPcs]),
   latitude     |-> None,
   longitude    |-> None,
   lines        |-> site_lines(grp)]

\* main._aggregate_sites, lines 834-898.
aggregate_sites(frame) ==
  LET keys  == sort_site_keys({site_key(frame[i]) : i \in 1..Len(frame)})
      sites == [i \in 1..Len(keys) |->
                  site_of(keys[i], SelectSeq(frame, LAMBDA r : site_key(r) = keys[i]))]
  IN  SelectSeq(sites, LAMBDA s : s.total_weight > 0 /\ s.total_pieces > 0)

\* main._geocode_sites, line 910: the cache key of a site.
site_normalized(s) ==
  str_lower(str_strip(s.city)) \o <<",">> \o str_upper(str_strip(s.state))
    \o <<",">> \o str_strip(s.country)

\* main._geocode_sites, lines 904-928, for one site: `cached` is what the
\* cache lookup returned (None when the cache has no row, is not configured or
\* cannot be reached), `outcome` what the provider answered.
geocode_site(s, cached, api_key, outcome) ==
  IF cached # None
  THEN [s EXCEPT !.latitude = Some(cached[1].latitude), !.longitude = Some(cached[1].longitude)]
  ELSE IF ~api_key \/ outcome = None THEN s
  ELSE [s EXCEPT !.latitude = Some(outcome[1].lat), !.longitude = Some(outcome[1].lng)]

\* float(s.get("latitude") or 0.0), float(s.get("longitude") or 0.0)
point_or_zero(s) ==
  [lat |-> IF s.latitude = None THEN 0 ELSE s.latitude[1],
   lng |-> IF s.longitude = None THEN 0 ELSE s.longitude[1]]

has_coordinates(s) == s.latitude # None /\ s.longitude # None

\* main._presplit_overweight, lines 980-1005: one pass over remaining_lines
\* filling one truck.  acc = [take_weight, take_pcs, new_remaining].
RECURSIVE fill_one_truck(_, _, _)
fill_one_truck(lines, capacity, acc) ==
  IF lines = <<>> THEN acc
  ELSE LET ln  == lines[1]
           wpp == ln.WeightPerPiece
           max_can_take == IF wpp > 0 THEN (capacity - acc.take_weight) \div wpp ELSE 0
       IN  IF max_can_take <= 0
           THEN fill_one_truck(Tail(lines), capacity,
                               [acc EXCEPT !.new_remaining = Append(@, ln)])
           ELSE LET take == Min2(ln.RPcs, max_can_take)
                    left == ln.RPcs - take
                    acc1 == IF take > 0
                            THEN [take_weight   |-> acc.take_weight + take * wpp,
                                  take_pcs      |-> acc.take_pcs + take,
                                  new_remaining |->
                                    IF left > 0
                                    THEN Append(acc.new_remaining,
                                                [ln EXCEPT !.RPcs = left, !.ReadyWeight = left * wpp])
                                    ELSE acc.new_remaining]
                            ELSE [acc EXCEPT !.new_remaining = Append(@, ln)]
                IN  IF capacity - acc1.take_weight <= 0
                    THEN [acc1 EXCEPT !.new_remaining = @ \o Tail(lines)]
                    ELSE fill_one_truck(Tail(lines), capacity, acc1)

\* main._presplit_overweight, lines 975-1013: the while loop.
\* acc = [full_trucks, remaining_weight, remaining_lines].
RECURSIVE full_trucks_of(_, _)
full_trucks_of(capacity, acc) ==
  IF ~(acc.remaining_weight > capacity /\ acc.remaining_lines # <<>>) THEN acc
  ELSE LET t == fill_one_truck(acc.remaining_lines, capacity,
                               [take_weight |-> 0, take_pcs |-> 0, new_remaining |-> <<>>])
       IN  IF t.take_weight > 0
           THEN full_trucks_of(capacity,
                  [full_trucks      |-> Append(acc.full_trucks,
                                               [weight |-> t.take_weight, pieces |-> t.take_pcs]),
                   remaining_weight |-> acc.remaining_weight - t.take_weight,
                   remaining_lines  |-> t.new_remaining])
           ELSE acc

\* list.sort(key=WeightPerPiece, reverse=True): stable, heaviest piece first.
RECURSIVE sort_heavy_first(_)
sort_heavy_first(lines) ==
  IF lines = <<>> THEN <<>>
  ELSE LET i == CHOOSE n \in 1..Len(lines) :
                  /\ \A m \in 1..Len(lines) : lines[m].WeightPerPiece <= lines[n].WeightPerPiece
                  /\ \A m \in 1..(n - 1) : lines[m].WeightPerPiece < lines[n].WeightPerPiece
       IN  <<lines[i]>> \o sort_heavy_first(SubSeq(lines, 1, i - 1) \o SubSeq(lines, i + 1, Len(lines)))

\* main._presplit_overweight, lines 953-1041.  legs maps a site_id to its
\* depot leg.  Result: the single-stop trucks, the residual sites, next_id.
RECURSIVE presplit_overweight(_, _, _, _)
presplit_overweight(sites, legs, capacity, next_id) ==
  IF sites = <<>> THEN [trucks |-> <<>>, residual |-> <<>>, next_id |-> next_id]
  ELSE
    LET s == sites[1]
    IN  IF s.total_weight <= capacity
        THEN LET rest == presplit_overweight(Tail(sites), legs, capacity, next_id)
             IN  [rest EXCEPT !.residual = <<s>> \o @]
        ELSE
          LET w    == full_trucks_of(capacity,
                        [full_trucks |-> <<>>, remaining_weight |-> s.total_weight,
                         remaining_lines |-> sort_heavy_first(s.lines)])
              leg  == IF s.site_id \in DOMAIN legs THEN legs[s.site_id]
                      ELSE [miles_out |-> 0, minutes_out |-> 0]
              mine == [i \in 1..Len(w.full_trucks) |->
                         [truck_id |-> next_id + i - 1, site_id |-> s.site_id,
                          customer |-> s.customer, city |-> s.city, state |-> s.state,
                          latitude |-> point_or_zero(s).lat, longitude |-> point_or_zero(s).lng,
                          weight |-> w.full_trucks[i].weight, pieces |-> w.full_trucks[i].pieces,
                          total_distance_miles |-> 2 * leg.miles_out,
                          total_duration_minutes |-> 2 * leg.minutes_out]]
              res_weight == SumSeq([i \in 1..Len(w.remaining_lines) |->
                                      IF w.remaining_lines[i].ReadyWeight # 0
                                      THEN w.remaining_lines[i].ReadyWeight
                                      ELSE w.remaining_lines[i].RPcs * w.remaining_lines[i].WeightPerPiece])
              res_pcs == SumSeq([i \in 1..Len(w.remaining_lines) |-> w.remaining_lines[i].RPcs])
              rest == presplit_overweight(Tail(sites), legs, capacity, next_id + Len(w.full_trucks))
          IN  [trucks   |-> mine \o rest.trucks,
               residual |-> (IF res_weight > 0 /\ res_pcs > 0
                             THEN <<[s EXCEPT !.total_weight = res_weight,
                                              !.total_pieces = res_pcs,
                                              !.lines = w.remaining_lines]>>
                             ELSE <<>>) \o rest.residual,
               next_id  |-> rest.next_id]

\* solve_vrp's parameters (vrp_solver.py, lines 103-112) and the keywords
\* both handlers call it with (main.py, lines 1153-1164 and 1606-1616).  A
\* call with a keyword that is no parameter raises TypeError before the body
\* runs.
solve_vrp_parameters ==
  {"stops", "depot_lat", "depot_lng", "distance_matrix", "duration_matrix",
   "max_weight_per_truck", "max_drive_time_minutes", "service_time_per_stop_minutes"}
solve_vrp_keywords ==
  {"stops", "depot_lat", "depot_lng", "distance_matrix", "duration_matrix",
   "max_weight_per_truck", "max_drive_time_minutes", "service_time_per_stop_minutes",
   "max_vehicles"}
call_binds(keywords, parameters) == keywords \subseteq parameters

\* google_distance_matrix(api_key, coords, coords) answered by the provider
\* w (distance_service.py, lines 33-81).
full_matrix(w, coords) ==
  [e \in (0..(Len(coords) - 1)) \X (0..(Len(coords) - 1)) |->
     [miles |-> pair_miles(w, coords[e[1] + 1], coords[e[2] + 1]),
      minutes |-> pair_minutes(w, coords[e[1] + 1], coords[e[2] + 1])]]
\* The matrix filled pair by pair, the pairs of `answered` by the provider
\* and the others left or set to 0.0.
pairs_matrix(w, coords, answered) ==
  [e \in (0..(Len(coords) - 1)) \X (0..(Len(coords) - 1)) |->
     IF e \in answered THEN full_matrix(w, coords)[e] ELSE [miles |-> 0, minutes |-> 0]]
OffDiagonal(n) == {e \in (0..(n - 1)) \X (0..(n - 1)) : e[1] # e[2]}
miles_of(m) == [e \in DOMAIN m |-> m[e].miles]
minutes_of(m) == [e \in DOMAIN m |-> m[e].minutes]

\* route_optimize_v1, lines 1107-1135: one call for the full matrix; when it
\* raises, one call per pair, a failed pair being 0.0.  Without an API key
\* every call fails; with one, the calls for all pairs, all but one pair or
\* no pair are answered.
AnsweredPairs(n) ==
  {OffDiagonal(n), {}} \cup {OffDiagonal(n) \ {e} : e \in OffDiagonal(n)}
v1_matrices(coords, api_key) ==
  (IF api_key THEN {full_matrix(w, coords) : w \in MinutesPerDegree} ELSE {})
    \cup {pairs_matrix(w, coords, answered) :
            w \in MinutesPerDegree,
            answered \in (IF api_key THEN AnsweredPairs(Len(coords)) ELSE {{}})}

\* route_optimize_v1, lines 1138-1151
v1_stops(residual_sites) ==
  [i \in 1..Len(residual_sites) |->
     LET s == residual_sites[i]
     IN  Stop(s.customer, s.city, s.state, point_or_zero(s).lat, point_or_zero(s).lng,
              s.total_weight, s.total_pieces, s.site_id, "site")]

\* route_optimize_v1, lines 1171-1186
v1_response(sites, single_trucks, residual_sites, routes_vrp, capacity) ==
  [status      |-> 200,
   routes      |-> single_trucks \o routes_vrp,
   totals      |-> [trucks |-> Len(single_trucks) + Len(routes_vrp),
                    stops  |-> Len(single_trucks)
                                 + SumSeq([i \in 1..Len(routes_vrp) |-> Len(routes_vrp[i].stops)]),
                    weight |-> SumSeq([i \in 1..Len(single_trucks) |-> single_trucks[i].weight])
                                 + SumSeq([i \in 1..Len(routes_vrp) |-> routes_vrp[i].total_weight])],
   diagnostics |-> [overweight_sites |-> Len(SelectSeq(sites, LAMBDA s : s.total_weight > capacity)),
                    residual_sites   |-> Len(residual_sites)]]

\* The locals of route_optimize_v1.
V1Job(input, api_key, dsn) ==
  [kind |-> "route_v1", input |-> input, api_key |-> api_key, dsn |-> dsn,
   frame |-> <<>>, sites |-> <<>>, next |-> 1, legs |-> <<>>,
   coords |-> None, matrix |-> None, stops |-> None, log |-> <<>>]

InitV1 ==
  /\ PlanIdle
  /\ rpc = "route_v1"
  /\ address_cache = <<>>
  /\ distance_cache = <<>>
  /\ \E input \in RouteSheets, api_key \in BOOLEAN, dsn \in BOOLEAN :
       job = V1Job(input, api_key, dsn)
  /\ response = None
  /\ no_multi_stop = NO_MULTI_STOP_CUSTOMERS

\* route_optimize_v1, lines 1064-1075: filters, calculated fields, sites.
V1Aggregate ==
  /\ rpc = "route_v1"
  /\ LET frame == apply_routing_filters(compute_calculated_fields_df(job.input))
         sites == aggregate_sites(frame)
     IN  /\ job' = [job EXCEPT !.frame = frame, !.sites = sites]
         /\ IF sites = <<>>
            THEN /\ response' = HttpError(400, "No valid sites found")
                 /\ rpc' = "v1_failed"
            ELSE /\ response' = response
                 /\ rpc' = "v1_geocode"
  /\ UNCHANGED <<address_cache, no_multi_stop>>
  /\ UNCHANGED plan_vars
  /\ UNCHANGED distance_cache

\* _geocode_sites, lines 904-928: the loop body for the next site.  The
\* cache lookup and the cache write fail silently when the database cannot
\* be reached (geocode_service.py, lines 72-73 and 114-116).
V1GeocodeSite ==
  /\ rpc = "v1_geocode"
  /\ \E reachable \in (IF job.dsn THEN BOOLEAN ELSE {FALSE}),
        outcome \in ProviderOutcomes,
        stored \in (IF job.dsn THEN BOOLEAN ELSE {FALSE}) :
       LET s      == job.sites[job.next]
           key    == site_normalized(s)
           cached == IF reachable /\ key \in DOMAIN address_cache
                     THEN Some(address_cache[key]) ELSE None
           called == cached = None /\ job.api_key
       IN  /\ (~called => outcome = None /\ ~stored)
           /\ (outcome = None => ~stored)
           /\ job' = [job EXCEPT
                        !.sites[job.next] = geocode_site(s, cached, job.api_key, outcome),
                        !.next = @ + 1,
                        !.log = IF called
                                THEN Append(@, Event(1, "geocode", s.site_id, outcome # None, outcome))
                                ELSE @]
           /\ address_cache' =
                IF called /\ outcome # None /\ stored
                THEN upsert(address_cache, [normalized |-> key, lat |-> outcome[1].lat,
                                            lng |-> outcome[1].lng])
                ELSE address_cache
  /\ rpc' = IF job.next = Len(job.sites) THEN "v1_legs" ELSE "v1_geocode"
  /\ UNCHANGED <<response, no_multi_stop>>
  /\ UNCHANGED plan_vars
  /\ UNCHANGED distance_cache

\* _compute_depot_legs, lines 931-950, called at line 1087: one provider
\* call from the depot to the sites that have coordinates; nothing catches
\* its exception.
V1DepotLegs ==
  /\ rpc = "v1_legs"
  /\ LET located == SelectSeq(job.sites, has_coordinates)
     IN  IF located = <<>>
         THEN /\ job' = [job EXCEPT !.legs = <<>>]
              /\ rpc' = "v1_route"
              /\ response' = response
         ELSE \E answer \in (IF job.api_key THEN {Some(w) : w \in MinutesPerDegree} ELSE {})
                               \cup {None} :
                IF answer = None
                THEN /\ response' = HttpError(500, "RuntimeError")
                     /\ rpc' = "v1_failed"
                     /\ job' = job
                ELSE /\ job' = [job EXCEPT !.legs =
                                  [id \in {located[i].site_id : i \in 1..Len(located)} |->
                                     LET s == CHOOSE x \in {located[i] : i \in 1..Len(located)} :
                                                x.site_id = id
                                     IN  [miles_out   |-> pair_miles(answer[1], depot_point, point_or_zero(s)),
                                          minutes_out |-> pair_minutes(answer[1], depot_point, point_or_zero(s))]]]
                     /\ rpc' = "v1_route"
                     /\ response' = response
  /\ UNCHANGED <<address_cache, no_multi_stop>>
  /\ UNCHANGED plan_vars
  /\ UNCHANGED distance_cache

\* route_optimize_v1, lines 1089-1186: pre-split, residual sites, matrices,
\* stops, the call of solve_vrp and the response.
V1Route ==
  /\ rpc = "v1_route"
  /\ LET capacity == maxWeightPerTruck
         split    == presplit_overweight(job.sites, job.legs, capacity, 1)
         residual_sites == SelectSeq(split.residual, LAMBDA s : s.total_weight <= capacity)
         coords   == <<depot_point>> \o [i \in 1..Len(residual_sites) |-> point_or_zero(residual_sites[i])]
         stops    == v1_stops(residual_sites)
     IN  IF residual_sites = <<>>
         THEN /\ job' = job
              /\ response' = v1_response(job.sites, split.trucks, residual_sites, <<>>, capacity)
         ELSE \E matrix \in v1_matrices(coords, job.api_key) :
                /\ job' = [job EXCEPT !.coords = Some(coords), !.matrix = Some(matrix),
                                      !.stops = Some(stops)]
                /\ IF call_binds(solve_vrp_keywords, solve_vrp_parameters)
                   THEN \E routes \in solve_vrp(stops, miles_of(matrix), minutes_of(matrix),
                                               capacity, max_drive_time_minutes,
                                               serviceTimePerStopMinutes) :
                          response' = v1_response(job.sites, split.trucks, residual_sites,
                                                  routes, capacity)
                   ELSE response' = HttpError(500, "TypeError")
  /\ rpc' = "v1_returned"
  /\ UNCHANGED <<address_cache, no_multi_stop>>
  /\ UNCHANGED plan_vars
  /\ UNCHANGED distance_cache

NextV1 ==
  \/ V1Aggregate
  \/ V1GeocodeSite
  \/ V1DepotLegs
  \/ V1Route

SpecV1 == InitV1 /\ [][NextV1]_vars

\* ------------------------------------------------------------ claim C16
\* The sites of the request that ended up without coordinates: the provider
\* failed for them, or no lookup and no provider could be asked.
SitesWithoutCoordinates ==
  {job.sites[i] : i \in {n \in 1..Len(job.sites) : ~has_coordinates(job.sites[n])}}
GeocodingOver == rpc \in {"v1_legs", "v1_route", "v1_returned", "v1_failed"} /\ job.sites # <<>>

\* C16: geocode failure is non-fatal.  When a site of a routing request has
\* no coordinates after geocoding (the provider failed for it), the request
\* does not end in an error, and no stop for that site is among the points
\* handed to the distance matrix or among the stops handed to the solver.
C16_GeocodeFailureNonFatal ==
  (GeocodingOver /\ SitesWithoutCoordinates # {}) =>
    /\ rpc # "v1_failed"
    /\ (rpc = "v1_returned" => response.status = 200)
    /\ (job.stops # None =>
          \A s \in SitesWithoutCoordinates :
            /\ \A i \in 1..Len(job.stops[1]) : job.stops[1][i].order_id # s.site_id
            /\ Len(job.coords[1]) = 1 + Len(job.stops[1]))

\* ---- route_optimize_phase2
\* distance_service.haversine_matrix, lines 84-104, in whole numbers: 69
\* miles per degree of separation stand for the great-circle distance, times
\* the factor 1.25, driven at 45 mph.
haversine_leg(a, b) ==
  LET d == (69 * degrees_apart(a, b) * 5) \div 4
  IN  [miles |-> d, minutes |-> (d * 60) \div 45]

\* The address columns of the filtered sheet (excel_utils.py, lines 254-262).
address_columns(frame) ==
  [i \in 1..Len(frame) |->
     AddressRow(frame[i].street, frame[i].shipping_city, frame[i].shipping_state, frame[i].zip)]

\* The locals of route_optimize_phase2.
P2Job(input, api_key, dsn) ==
  [kind |-> "route_phase2", input |-> input, api_key |-> api_key, dsn |-> dsn,
   frame |-> <<>>, addrs |-> <<>>, next |-> 1, geocoded_addrs |-> <<>>,
   coords |-> <<>>, matrix |-> None, provider |-> "cached", fetch |-> "none",
   stops |-> None, unroutable_lines |-> <<>>, run |-> 1, log |-> <<>>]

InitPhase2 ==
  /\ PlanIdle
  /\ rpc = "route_phase2"
  /\ address_cache = <<>>
  /\ distance_cache = <<>>
  /\ \E input \in RouteSheets, api_key \in BOOLEAN, dsn \in BOOLEAN :
       job = P2Job(input, api_key, dsn)
  /\ response = None
  /\ no_multi_stop = NO_MULTI_STOP_CUSTOMERS

\* route_optimize_phase2, lines 1216-1230 and, for a sheet without
\* addresses, the check of lines 1259-1261 that follows the empty loop.
P2Prepare ==
  /\ rpc = "route_phase2"
  /\ LET frame == apply_routing_filters(compute_calculated_fields_df(job.input))
         addrs == extract_unique_addresses(address_columns(frame))
     IN  /\ job' = [job EXCEPT !.frame = frame, !.addrs = addrs]
         /\ IF addrs = <<>>
            THEN /\ response' = HttpError(400, "No addresses could be geocoded")
                 /\ rpc' = "p2_failed"
            ELSE /\ response' = response
                 /\ rpc' = "p2_geocode"
  /\ UNCHANGED <<address_cache, distance_cache, no_multi_stop>>
  /\ UNCHANGED plan_vars

\* route_optimize_phase2, lines 1234-1257: the loop body for one address.
geocode_address(geocoded_addrs, a, cached, api_key, outcome) ==
  IF cached # None
  THEN Append(geocoded_addrs, [latitude |-> cached[1].latitude,
                               longitude |-> cached[1].longitude] @@ a)
  ELSE IF api_key /\ outcome # None
  THEN Append(geocoded_addrs, [latitude |-> outcome[1].lat, longitude |-> outcome[1].lng] @@ a)
  ELSE geocoded_addrs

\* route_optimize_phase2, lines 1234-1261: the next address is geocoded;
\* after the last one the request fails when none was.
P2GeocodeAddress ==
  /\ rpc = "p2_geocode"
  /\ \E reachable \in (IF job.dsn THEN BOOLEAN ELSE {FALSE}),
        outcome \in ProviderOutcomes,
        stored \in (IF job.dsn THEN BOOLEAN ELSE {FALSE}) :
       LET a      == job.addrs[job.next]
           cached == IF reachable /\ a.normalized \in DOMAIN address_cache
                     THEN Some(address_cache[a.normalized]) ELSE None
           called == cached = None /\ job.api_key
           found  == geocode_address(job.geocoded_addrs, a, cached, job.api_key, outcome)
           last   == job.next = Len(job.addrs)
       IN  /\ (~called => outcome = None /\ ~stored)
           /\ (outcome = None => ~stored)
           /\ job' = [job EXCEPT
                        !.geocoded_addrs = found,
                        !.next = @ + 1,
                        !.log = IF called
                                THEN Append(@, Event(job.run, "geocode", a.normalized, outcome # None, outcome))
                                ELSE @]
           /\ address_cache' =
                IF called /\ outcome # None /\ stored
                THEN upsert(address_cache, [normalized |-> a.normalized, lat |-> outcome[1].lat,
                                            lng |-> outcome[1].lng])
                ELSE address_cache
           /\ IF last /\ found = <<>>
              THEN /\ response' = HttpError(400, "No addresses could be geocoded")
                   /\ rpc' = "p2_failed"
              ELSE /\ response' = response
                   /\ rpc' = IF last THEN "p2_matrix" ELSE "p2_geocode"
  /\ UNCHANGED <<distance_cache, no_multi_stop>>
  /\ UNCHANGED plan_vars

\* route_optimize_phase2, lines 1284-1292: the key of a point is its
\* coordinates printed with six decimals; the pairs are all i # j.
coord_key(point) == <<point.lat, point.lng>>
distance_key(coords, e, provider) ==
  <<coord_key(coords[e[1] + 1]), coord_key(coords[e[2] + 1]), provider>>

\* route_optimize_phase2, lines 1302-1329: the pairs found in distance_cache
\* with provider = 'google'.
distance_cache_hits(cache, coords) ==
  {e \in OffDiagonal(Len(coords)) : distance_key(coords, e, "google") \in DOMAIN cache}

zero_leg == [miles |-> 0, minutes |-> 0]

\* route_optimize_phase2, lines 1275-1383 and 1415-1420: dist_matrix and
\* dur_matrix after the cache hits and the fetch of the misses.  answer is
\* the provider's (None: it failed, or was not asked).  fetch is what was
\* asked of the provider: the full matrix in one call ("full", line 1361),
\* one call for every missing pair ("pairs", line 1370), or nothing.
p2_matrix(cache, coords, hits, api_key, answer) ==
  LET n      == Len(coords)
      misses == OffDiagonal(n) \ hits
      cached == [e \in (0..(n - 1)) \X (0..(n - 1)) |->
                   IF e \in hits THEN cache[distance_key(coords, e, "google")] ELSE zero_leg]
      estimated == [e \in DOMAIN cached |->
                      IF e \in misses THEN haversine_leg(coords[e[1] + 1], coords[e[2] + 1])
                      ELSE cached[e]]
      asked == IF 2 * Cardinality(misses) > n * n THEN "full" ELSE "pairs"
  IN  IF misses = {} THEN [matrix |-> cached, provider |-> "cached", fetch |-> "none"]
      ELSE IF ~api_key THEN [matrix |-> estimated, provider |-> "cached", fetch |-> "none"]
      ELSE IF n > 100 THEN [matrix |-> estimated, provider |-> "haversine", fetch |-> "none"]
      ELSE IF answer = None
      THEN [matrix |-> estimated, provider |-> "haversine", fetch |-> asked]
      ELSE IF asked = "full"
      THEN [matrix |-> full_matrix(answer[1], coords), provider |-> "google", fetch |-> asked]
      ELSE [matrix |-> [e \in DOMAIN cached |->
                          IF e \in misses THEN full_matrix(answer[1], coords)[e] ELSE cached[e]],
            provider |-> "google", fetch |-> asked]

\* route_optimize_phase2, lines 1387-1409: the misses written back under
\* the provider that answered them.
RECURSIVE distance_cache_write(_, _, _, _, _)
distance_cache_write(cache, coords, misses, matrix, provider) ==
  IF misses = {} THEN cache
  ELSE LET e == CHOOSE x \in misses : TRUE
           k == distance_key(coords, e, provider)
       IN  distance_cache_write([x \in DOMAIN cache \cup {k} |->
                                   IF x = k THEN matrix[e] ELSE cache[x]],
                                coords, misses \ {e}, matrix, provider)

\* route_optimize_phase2, lines 1263-1422: the matrices of the depot and
\* the geocoded addresses.
P2Matrix ==
  /\ rpc = "p2_matrix"
  /\ LET coords == <<depot_point>> \o
                     [i \in 1..Len(job.geocoded_addrs) |->
                        [lat |-> job.geocoded_addrs[i].latitude,
                         lng |-> job.geocoded_addrs[i].longitude]]
     IN  \E reachable \in (IF job.dsn THEN BOOLEAN ELSE {FALSE}),
            answer \in {Some(w) : w \in MinutesPerDegree} \cup {None},
            committed \in (IF job.dsn THEN BOOLEAN ELSE {FALSE}) :
           LET hits   == IF reachable THEN distance_cache_hits(distance_cache, coords) ELSE {}
               misses == OffDiagonal(Len(coords)) \ hits
               asked  == misses # {} /\ job.api_key
               built  == p2_matrix(distance_cache, coords, hits, job.api_key, answer)
           IN  /\ (~asked => answer = None /\ ~committed)
               /\ job' = [job EXCEPT !.coords = coords, !.matrix = Some(built.matrix),
                                     !.provider = built.provider,
                                     !.fetch = built.fetch,
                                     !.log = @ \o (IF job.dsn
                                                   THEN <<Event(job.run, "distance_lookup", hits, reachable, None)>>
                                                   ELSE <<>>)
                                               \o (IF asked
                                                   THEN <<Event(job.run, "distance_fetch", misses, answer # None, answer)>>
                                                   ELSE <<>>)
                                               \o (IF asked /\ job.dsn
                                                   THEN <<Event(job.run, "distance_write", coords, committed,
                                                                Some(built.provider))>>
                                                   ELSE <<>>)]
               /\ distance_cache' =
                    IF asked /\ committed
                    THEN distance_cache_write(distance_cache, coords, misses, built.matrix,
                                              built.provider)
                    ELSE distance_cache
  /\ rpc' = "p2_pack"
  /\ UNCHANGED <<address_cache, response, no_multi_stop>>
  /\ UNCHANGED plan_vars

\* route_optimize_phase2, lines 1432-1436: the geocoded address of a city
\* and state; of several, the last one.
addr_lookup_key(city, state) == <<str_lower(city), str_upper(state)>>
addr_lookup(geocoded_addrs, key) ==
  LET at == {i \in 1..Len(geocoded_addrs) :
               addr_lookup_key(geocoded_addrs[i].city, geocoded_addrs[i].state) = key}
  IN  IF at = {} THEN None
      ELSE Some(geocoded_addrs[CHOOSE i \in at : \A j \in at : j <= i])

\* route_optimize_phase2, line 1453: the group key of a row and the order
\* groupby gives the keys.
load_key(r) == <<r.Customer, r.shipping_city, r.shipping_state>>
load_key_ord(k) == <<StrOrd(k[1])>> \o text_ord(k[2]) \o <<0>> \o text_ord(k[3])
RECURSIVE sort_load_keys(_)
sort_load_keys(K) ==
  IF K = {} THEN <<>>
  ELSE LET k == CHOOSE x \in K : \A y \in K \ {x} : ord_less(load_key_ord(x), load_key_ord(y))
       IN  <<k>> \o sort_load_keys(K \ {k})

\* sort_values("Ready Weight", ascending=False), lines 1465-1466; rows of
\* equal weight keep their order.
RECURSIVE sort_by_ready_weight(_)
sort_by_ready_weight(lines) ==
  IF lines = <<>> THEN <<>>
  ELSE LET i == CHOOSE n \in 1..Len(lines) :
                  /\ \A m \in 1..Len(lines) : lines[m].ReadyWeight <= lines[n].ReadyWeight
                  /\ \A m \in 1..(n - 1) : lines[m].ReadyWeight < lines[n].ReadyWeight
       IN  <<lines[i]>> \o sort_by_ready_weight(SubSeq(lines, 1, i - 1) \o SubSeq(lines, i + 1, Len(lines)))

empty_load == [weight |-> 0, pieces |-> 0, lines |-> <<>>]

\* route_optimize_phase2, lines 1515-1545: the pieces of one line are put on
\* the current truck and on new ones.  acc = [truck_loads, current_truck].
RECURSIVE allocate_pieces(_, _, _, _, _)
allocate_pieces(line, weight_per_piece, pieces_remaining, max_weight, acc) ==
  IF pieces_remaining <= 0 THEN acc
  ELSE LET closes == max_weight - acc.current_truck.weight < weight_per_piece
           loads1 == IF closes /\ acc.current_truck.lines # <<>>
                     THEN Append(acc.truck_loads, acc.current_truck) ELSE acc.truck_loads
           truck1 == IF closes THEN empty_load ELSE acc.current_truck
           available_capacity == max_weight - truck1.weight
           max_pieces_fit == available_capacity \div weight_per_piece
           take   == Min2(pieces_remaining, max_pieces_fit)
           fragment == [line EXCEPT !.RPcs = take, !.ReadyWeight = take * weight_per_piece]
       IN  allocate_pieces(line, weight_per_piece, pieces_remaining - take, max_weight,
             [truck_loads   |-> loads1,
              current_truck |-> [weight |-> truck1.weight + take * weight_per_piece,
                                 pieces |-> truck1.pieces + take,
                                 lines  |-> Append(truck1.lines, fragment)]])

\* route_optimize_phase2, lines 1484-1498: the per-piece weight of a line.
line_weight_per_piece(line) ==
  IF line.WeightPerPiece > 0 THEN line.WeightPerPiece ELSE line.ReadyWeight \div line.RPcs

unroutable_line(line, weight_per_piece) ==
  [SO |-> line.SO, Line |-> line.Line, Customer |-> line.Customer,
   shipping_city |-> line.shipping_city, shipping_state |-> line.shipping_state,
   weight_per_piece |-> weight_per_piece, reason |-> "piece_weight_exceeds_truck_capacity"]

\* route_optimize_phase2, lines 1474-1549: the truck loads of one customer
\* and destination.  acc = [truck_loads, current_truck, unroutable].
RECURSIVE pack_lines(_, _, _)
pack_lines(lines, max_weight, acc) ==
  IF lines = <<>>
  THEN [acc EXCEPT !.truck_loads = IF acc.current_truck.lines # <<>>
                                   THEN Append(@, acc.current_truck) ELSE @]
  ELSE LET line == lines[1]
           wpp  == line_weight_per_piece(line)
       IN  IF line.RPcs <= 0 THEN pack_lines(Tail(lines), max_weight, acc)
           ELSE IF wpp > max_weight
           THEN pack_lines(Tail(lines), max_weight,
                           [acc EXCEPT !.unroutable = Append(@, unroutable_line(line, wpp))])
           ELSE LET a == allocate_pieces(line, wpp, line.RPcs, max_weight,
                                         [truck_loads |-> acc.truck_loads,
                                          current_truck |-> acc.current_truck])
                IN  pack_lines(Tail(lines), max_weight,
                               [truck_loads |-> a.truck_loads, current_truck |-> a.current_truck,
                                unroutable |-> acc.unroutable])

\* route_optimize_phase2, lines 1552-1569: one Stop per truck load.  No
\* customer of the sheets is longer than the 20 characters order_id keeps.
load_stops(customer, city, state, addr, truck_loads) ==
  [i \in 1..Len(truck_loads) |->
     Stop(customer, city, state, addr.latitude, addr.longitude,
          truck_loads[i].weight, truck_loads[i].pieces,
          IF Len(truck_loads) > 1 THEN <<customer, "-T", i>> ELSE <<customer>>,
          <<Len(truck_loads[i].lines), " lines">>)]

\* route_optimize_phase2, lines 1453-1569: all groups in order.
\* acc = [stops, unroutable_lines].
RECURSIVE pack_groups(_, _, _, _, _)
pack_groups(keys, frame, geocoded_addrs, max_weight, acc) ==
  IF keys = <<>> THEN acc
  ELSE LET key  == keys[1]
           addr == addr_lookup(geocoded_addrs, addr_lookup_key(key[2], key[3]))
       IN  IF addr = None
           THEN pack_groups(Tail(keys), frame, geocoded_addrs, max_weight, acc)
           ELSE LET customer_lines == sort_by_ready_weight(
                                        SelectSeq(frame, LAMBDA r : load_key(r) = key))
                    packed == pack_lines(customer_lines, max_weight,
                                         [truck_loads |-> <<>>, current_truck |-> empty_load,
                                          unroutable |-> <<>>])
                IN  pack_groups(Tail(keys), frame, geocoded_addrs, max_weight,
                      [stops |-> acc.stops \o load_stops(key[1], key[2], key[3], addr[1],
                                                         packed.truck_loads),
                       unroutable_lines |-> acc.unroutable_lines \o packed.unroutable])

\* route_optimize_phase2, lines 1424-1603: bin packing and the run log.
\* The log divides by len(stops) (line 1586) before the handler tests
\* `if not stops` (line 1602).
P2Pack ==
  /\ rpc = "p2_pack"
  /\ LET keys   == sort_load_keys({load_key(job.frame[i]) : i \in 1..Len(job.frame)})
         packed == pack_groups(keys, job.frame, job.geocoded_addrs, maxWeightPerTruck,
                               [stops |-> <<>>, unroutable_lines |-> <<>>])
     IN  /\ job' = [job EXCEPT !.stops = Some(packed.stops),
                               !.unroutable_lines = packed.unroutable_lines]
         /\ IF packed.stops = <<>>
            THEN /\ response' = HttpError(500, "ZeroDivisionError")
                 /\ rpc' = "p2_failed"
            ELSE /\ response' = response
                 /\ rpc' = "p2_solve"
  /\ UNCHANGED <<address_cache, distance_cache, no_multi_stop>>
  /\ UNCHANGED plan_vars

\* route_optimize_phase2, lines 1622-1631: a routed stop is looked up in
\* stops by its order_id, the first match counts.
routed_stop_indices(stops, routes) ==
  {i \in 1..Len(stops) :
     \E r \in 1..Len(routes) : \E n \in 1..Len(routes[r].stops) :
       /\ stops[i].order_id = routes[r].stops[n].order_id
       /\ \A j \in 1..(i - 1) : stops[j].order_id # routes[r].stops[n].order_id}

\* route_optimize_phase2, classify_reason, lines 1639-1668, for stops[i] of
\* the model (index i - 1 of the code).  A matrix without the row or the
\* column of the stop gives 0 for both legs (the except of line 1645).
classify_reason(i, stops, matrix) ==
  LET known    == <<0, i>> \in DOMAIN matrix
      out_min  == IF known THEN matrix[<<0, i>>].minutes ELSE 0
      back_min == IF known THEN matrix[<<i, 0>>].minutes ELSE 0
      rt_minutes == out_min + back_min + serviceTimePerStopMinutes
  IN  [index |-> i - 1, customer_name |-> stops[i].customer_name, city |-> stops[i].city,
       state |-> stops[i].state, weight |-> stops[i].weight,
       roundtrip_minutes |-> rt_minutes, limit_minutes |-> maxDriveTimeMinutes,
       reason |-> IF stops[i].weight > maxWeightPerTruck
                  THEN "stop_weight_exceeds_truck_capacity"
                  ELSE IF rt_minutes > maxDriveTimeMinutes THEN "roundtrip_time_exceeds_limit"
                  ELSE IF out_min <= 0 /\ back_min <= 0 THEN "no_distance_time_available"
                  ELSE "not_routed_under_constraints"]

\* route_optimize_phase2, lines 1632-1633 and 1670-1672: the reasons of the
\* stops not found in a route, in index order.
RECURSIVE drop_reasons_from(_, _, _, _)
drop_reasons_from(i, stops, routed, matrix) ==
  IF i > Len(stops) THEN <<>>
  ELSE (IF i \in routed THEN <<>> ELSE <<classify_reason(i, stops, matrix)>>)
         \o drop_reasons_from(i + 1, stops, routed, matrix)

\* route_optimize_phase2, lines 1681-1690.
p2_response(routes, stops, unroutable_lines, drop_reasons) ==
  [status |-> 200, success |-> TRUE, routes |-> routes, depot |-> depot_point,
   total_trucks |-> Len(routes), total_stops |-> Len(stops),
   unroutable |-> unroutable_lines, drop_reasons |-> drop_reasons]

\* route_optimize_phase2, lines 1605-1690: the call of solve_vrp, the drop
\* reasons and the response.  The call names a parameter solve_vrp does not
\* have.  The matrices have a row for the depot and for every geocoded
\* address; the stops are the truck loads.
P2Solve ==
  /\ rpc = "p2_solve"
  /\ LET stops  == job.stops[1]
         matrix == job.matrix[1]
     IN  IF call_binds(solve_vrp_keywords, solve_vrp_parameters)
         THEN IF Len(stops) < Len(job.coords)
              THEN \E routes \in solve_vrp(stops, miles_of(matrix), minutes_of(matrix),
                                          maxWeightPerTruck, maxDriveTimeMinutes,
                                          serviceTimePerStopMinutes) :
                     response' = p2_response(routes, stops, job.unroutable_lines,
                                   drop_reasons_from(1, stops, routed_stop_indices(stops, routes),
                                                     matrix))
              ELSE response' = HttpError(500, "IndexError")
         ELSE response' = HttpError(500, "TypeError")
  /\ rpc' = "p2_returned"
  /\ UNCHANGED <<address_cache, distance_cache, job, no_multi_stop>>
  /\ UNCHANGED plan_vars

NextPhase2 ==
  \/ P2Prepare
  \/ P2GeocodeAddress
  \/ P2Matrix
  \/ P2Pack
  \/ P2Solve

SpecPhase2 == InitPhase2 /\ [][NextPhase2]_vars

\* ------------------------------------------------------------ claim C15
\* C15: an empty input gives empty lists, not an error.  When no order line
\* is left after filtering, a planning request answers with an empty trucks
\* list and an empty assignments list, and a routing request does not fail:
\* it answers with status 200 and an empty routes list.
C15_EmptyInput ==
  /\ (rpc = "none" /\ pc = "done" /\ df = <<>>) =>
       (OptimizeResponse.trucks = <<>> /\ OptimizeResponse.assignments = <<>>)
  /\ (rpc \in {"p2_geocode", "p2_matrix", "p2_pack", "p2_solve", "p2_failed", "p2_returned"}
        /\ job.frame = <<>>) =>
       /\ rpc # "p2_failed"
       /\ (rpc = "p2_returned" => (response.status = 200 /\ response.routes = <<>>))

\* ------------------------------------------------------------ claim C18
\* The stops of the request that are on a returned route, by their index in
\* stops (0-based, as in stop_sequence).
RoutedStops ==
  UNION {{response.routes[r].stop_sequence[n] : n \in DOMAIN response.routes[r].stop_sequence} :
         r \in DOMAIN response.routes}
\* The reason the order of the claim gives stop i (0-based).
ReasonInOrder(i) ==
  LET dropped_stop == job.stops[1][i + 1]
      legs == job.matrix[1]
      out  == IF <<0, i + 1>> \in DOMAIN legs THEN legs[<<0, i + 1>>].minutes ELSE 0
      back == IF <<i + 1, 0>> \in DOMAIN legs THEN legs[<<i + 1, 0>>].minutes ELSE 0
  IN  IF dropped_stop.weight > maxWeightPerTruck THEN "stop_weight_exceeds_truck_capacity"
      ELSE IF out + back + serviceTimePerStopMinutes > maxDriveTimeMinutes
      THEN "roundtrip_time_exceeds_limit"
      ELSE IF out <= 0 /\ back <= 0 THEN "no_distance_time_available"
      ELSE "not_routed_under_constraints"

\* C18: dropped-stop reporting.  A routing request that built its stops
\* answers with its routes and a list of dropped stops; the list holds
\* exactly the stops that are on no returned route, each once, and the
\* reason of each is the first that applies of: heavier than
\* maxWeightPerTruck, round trip plus service time longer than
\* maxDriveTimeMinutes, no time for either leg, not routed under the
\* constraints.
C18_DroppedStops ==
  (rpc = "p2_returned") =>
    /\ response.status = 200
    /\ LET dropped == response.drop_reasons
       IN  /\ {dropped[k].index : k \in DOMAIN dropped}
                = (0..(Len(job.stops[1]) - 1)) \ RoutedStops
           /\ \A k \in DOMAIN dropped, l \in DOMAIN dropped :
                dropped[k].index = dropped[l].index => k = l
           /\ \A k \in DOMAIN dropped : dropped[k].reason = ReasonInOrder(dropped[k].index)

\* ------------------------------------------------- the no-multi-stop list
\* The requests GET and POST /no-multi-stop-customers, served while a
\* planning request runs.  Both handlers are plain functions, which the
\* server runs on worker threads, so their steps interleave with one
\* another and with the steps of the planner.  The list is modelled as the
\* set of its elements.  The bodies a client posts: the empty list and a
\* list of one customer.
CustomerLists == {{}, {"Acme"}}

\* main.update_no_multi_stop_customers, line 1885: NO_MULTI_STOP_CUSTOMERS.clear()
UpdateClear ==
  /\ rpc = "none"
  /\ \E customers \in CustomerLists :
       job' = [kind |-> "update_no_multi_stop_customers", customers |-> customers]
  /\ no_multi_stop' = {}
  /\ rpc' = "update_clear"
  /\ UNCHANGED <<address_cache, distance_cache, response>>
  /\ UNCHANGED plan_vars

\* main.update_no_multi_stop_customers, lines 1886-1887:
\* NO_MULTI_STOP_CUSTOMERS.extend(customers) and the answer.
UpdateExtend ==
  /\ rpc = "update_clear"
  /\ no_multi_stop' = no_multi_stop \cup job.customers
  /\ response' = [status |-> 200, message |-> Cardinality(job.customers)]
  /\ job' = None
  /\ rpc' = "none"
  /\ UNCHANGED <<address_cache, distance_cache>>
  /\ UNCHANGED plan_vars

\* main.get_no_multi_stop_customers, lines 1874-1877, at any moment of an
\* update.
GetNoMultiStop ==
  /\ rpc \in {"none", "update_clear"}
  /\ response' = [status |-> 200, customers |-> no_multi_stop]
  /\ UNCHANGED <<rpc, address_cache, distance_cache, job, no_multi_stop>>
  /\ UNCHANGED plan_vars

NextShared ==
  \/ Next
  \/ UpdateClear
  \/ UpdateExtend
  \/ GetNoMultiStop

SpecShared == InitTake /\ [][NextShared]_vars

\* ------------------------------------------------------------ claim C20
\* C20: request isolation.  No mutable state of the process is shared across
\* requests: what a request can read of the process is what the process
\* started with, whatever other requests ran before it or run beside it, so
\* the no-multi-stop list is the one the module defines and an answer that
\* lists it lists exactly that.
C20_RequestIsolation ==
  /\ no_multi_stop = NO_MULTI_STOP_CUSTOMERS
  /\ ("customers" \in DOMAIN response => response.customers = NO_MULTI_STOP_CUSTOMERS)

\* =====================================================================
\* The packing loop, step by step
\* =====================================================================
\* The packer is about to read a line: the next fresh row of the group or
\* the next remainder of the iteration.
Reading ==
  \/ pc = "fresh" /\ rows # <<>>
  \/ pc = "remainders" /\ current_remainders # <<>>
Incoming == IF pc = "fresh" THEN rows[1] ELSE current_remainders[1]

\* The days of the earliestDue of the assignments that have one.
DueDays(pend) ==
  {Val(pend[i].earliestDue).date : i \in {k \in DOMAIN pend : ~IsNone(pend[k].earliestDue)}}

\* The step placed pieces of the line on the truck that was open before it.
JoinedOpen ==
  LET before == AllAssignments(st)
      after  == AllAssignments(st')
  IN  /\ Len(after) = Len(before) + 1
      /\ st.open.pending_assignments # <<>>
      /\ after[Len(before)].truckNumber = after[Len(after)].truckNumber
      /\ TruckMates(after, after[Len(after)]) = Len(st.open.pending_assignments) + 1

\* The step closed the truck that was open before it with what it held.
FinalizedFirst ==
  /\ Len(st'.truck_rows) > Len(st.truck_rows)
  /\ st'.truck_rows[Len(st.truck_rows) + 1].truckNumber = st.truck_counter + 1
  /\ st'.truck_rows[Len(st.truck_rows) + 1].totalWeight = st.open.current_weight
  /\ st'.truck_rows[Len(st.truck_rows) + 1].totalLines = Len(st.open.pending_assignments)

\* The two directions of the late-mixing precheck for the line being read.
\* undated_passes: a truck none of whose assignments has an earliestDue
\* counts as shippable today.
NonLateOntoLate ==
  LET o   == st.open
      row == Incoming
      shippable == ~IsNone(row.EarliestDue) /\ Val(row.EarliestDue).day <= today_utc.day
  IN  (Reading /\ o.current_weight > 0 /\ ~row.IsLate /\ o.contains_late) =>
        /\ (JoinedOpen => shippable)
        /\ (~shippable => FinalizedFirst)
LateOntoNonLate(undated_passes) ==
  LET o    == st.open
      row  == Incoming
      days == DueDays(o.pending_assignments)
      shippable == IF days = {} THEN undated_passes
                   ELSE \E d \in days : d <= today_utc.day
  IN  (Reading /\ o.current_weight > 0 /\ row.IsLate /\ ~o.contains_late) =>
        /\ (JoinedOpen => shippable)
        /\ (~shippable => FinalizedFirst)

C22_SoftFull ==
  (pc \in {"fresh", "remainders"}) =>
    st.open.current_weight * 100 < Val(g).max_weight * 98

\* Lines or remainders are still to be read, the open truck is empty and two
\* trucks of the group were finalized soft-full: one
\* filled to 0.98 of its maximum or more but not to the maximum, another
\* filled to exactly 0.98 of its maximum.
C22_Witness ==
  /\ pc = "fresh" /\ (rows # <<>> \/ pending_remainders # <<>>)
  /\ st.open.current_weight = 0
  /\ Len(st.truck_rows) >= 2
  /\ \E i \in DOMAIN st.truck_rows :
       /\ st.truck_rows[i].totalWeight * 100 > st.truck_rows[i].maxWeight * 98
       /\ st.truck_rows[i].totalWeight < st.truck_rows[i].maxWeight
  /\ \E i \in DOMAIN st.truck_rows :
       st.truck_rows[i].totalWeight * 100 = st.truck_rows[i].maxWeight * 98

\* ------------------------------------------------------------ claim C23
\* A remainder of the iteration is processed and what is queued of it for
\* the next iteration has fewer pieces than it had.
RemainderReduced ==
  LET row == current_remainders[1]
  IN  /\ current_remainders' = Tail(current_remainders)
      /\ \/ pending_remainders' = pending_remainders
         \/ /\ Len(pending_remainders') = Len(pending_remainders) + 1
            /\ pending_remainders'[Len(pending_remainders')].RPcs < row.RPcs
            /\ pending_remainders'[Len(pending_remainders')].RPcs >= 1
      /\ Len(AllAssignments(st')) = Len(AllAssignments(st)) + 1

\* The three parts of the claim, on one step of the remainder loop.
IterationsBounded ==
  pc = "remainders" => iteration_count' <= max_remainder_iterations
EveryRemainderReduced ==
  (pc = "remainders" /\ current_remainders # <<>>
     /\ current_remainders[1].WeightPerPiece <= Val(g).max_weight) => RemainderReduced
LoopEndsEmpty ==
  (pc = "remainders" /\ pc' # "remainders") =>
    (pending_remainders = <<>> /\ current_remainders = <<>>)

\* C23: remainder processing terminates for every group.  The loop runs at
\* most 100 iterations; in every iteration each queued remainder whose
\* per-piece weight is at most maxWeight has pieces placed and fewer pieces
\* queued again; and so the queue is empty when the loop is left.
C23_RemaindersTerminate ==
  [][IterationsBounded /\ EveryRemainderReduced /\ LoopEndsEmpty]_vars

\* ------------------------------------------------------------ claim C24
\* What a packing step decided: the trucks it left finalized, by weight, the
\* weight it left on the open truck and the pieces of every assignment.
Decision(r) ==
  [finalized |-> [i \in DOMAIN r.st.truck_rows |-> r.st.truck_rows[i].totalWeight],
   open      |-> r.st.open.current_weight,
   pieces    |-> MapPieces(AllAssignments(r.st)),
   queued    |-> [i \in DOMAIN r.rem |-> r.rem[i].RPcs]]

\* C24: remainders are packed by the rules of fresh lines.  Whenever a
\* remainder is about to be processed, the remainder step finalizes the same
\* trucks and takes the same number of pieces, onto the same truck, as the
\* fresh-line step would for the same open truck and the same row.
C24_SameRules ==
  (pc = "remainders" /\ current_remainders # <<>>) =>
    Decision(pack_remainder(st, Val(g), current_remainders[1], iteration_count))
      = Decision(pack_row(st, Val(g), current_remainders[1]))

\* ------------------------------------------------------------ claim C25
\* Python string order of the SO and Line values the sheets use.
SoLineOrd(r) ==
  << CASE r.SO = "SO1" -> 1 [] r.SO = "SO2" -> 2 [] r.SO = "SO3" -> 3 [] OTHER -> 9,
     CASE r.Line = "L1" -> 1 [] r.Line = "L2" -> 2 [] r.Line = "L3" -> 3
       [] r.Line = "L4" -> 4 [] r.Line = "L5" -> 5 [] OTHER -> 9 >>

\* Row a is consumed no later than row b: lower priority rank first, and
\* within a rank the lower (SO, Line).
ConsumedBefore(a, b) ==
  LexLessEq(<<a.priorityRank>> \o SoLineOrd(a), <<b.priorityRank>> \o SoLineOrd(b))

\* Within a rank, lines are consumed in the order of the input table
\* (the sort is stable and SO and Line are not among its keys).
InputPosition(r) ==
  CHOOSE i \in DOMAIN sheet : sheet[i].SO = r.SO /\ sheet[i].Line = r.Line

RankThenInput(a, b) ==
  LexLessEq(<<a.priorityRank, InputPosition(a)>>, <<b.priorityRank, InputPosition(b)>>)

\* The fresh row being consumed, and the rows of the group still waiting.
ConsumesFresh == pc = "fresh" /\ rows # <<>> /\ rows' = Tail(rows)

\* C25: the packer consumes a group's lines in ascending priority rank, and
\* lines of equal rank in (SO, Line) order whatever their order in the input
\* table: the line consumed by a step precedes, in (rank, SO, Line), every
\* line of the group consumed after it.
C25_ConsumptionOrder ==
  [][ConsumesFresh => \A i \in DOMAIN rows' : ConsumedBefore(rows[1], rows'[i])]_vars

\* What the packer does: ascending rank, then input order.
ConsumedInRankThenInputOrder ==
  [][ConsumesFresh => \A i \in DOMAIN rows' : RankThenInput(rows[1], rows'[i])]_vars

\* ------------------------------------------------------------ claim C26
\* The i-th truck finalized carries the number i, the counter is the number
\* of trucks finalized, the committed assignments not yet finalized carry no
\* number, and the assignments stamped with a truck's number are those whose
\* weight that truck was finalized with.
NumberedInOrder(state) ==
  /\ state.truck_counter = Len(state.truck_rows)
  /\ \A i \in DOMAIN state.truck_rows :
       /\ state.truck_rows[i].truckNumber = i
       /\ OnTruck(state.assignment_rows, i) # <<>>
       /\ SumSeq(MapWeight(OnTruck(state.assignment_rows, i)))
            = state.truck_rows[i].totalWeight
  /\ \A i \in DOMAIN state.assignment_rows :
       state.assignment_rows[i].truckNumber \in 1..state.truck_counter
  /\ \A i \in DOMAIN state.open.pending_assignments :
       state.open.pending_assignments[i].truckNumber = 0

IsPrefix(s, t) == Len(s) <= Len(t) /\ SubSeq(t, 1, Len(s)) = s

\* Committed assignments keep their place: each step only appends to the
\* sequence of committed assignments, finalized ones keep their number, and
\* the finalized assignments are listed truck after truck.
CommitOrderKept ==
  /\ IsPrefix(Unnumbered(AllAssignments(st)), Unnumbered(AllAssignments(st')))
  /\ IsPrefix(st.assignment_rows, st'.assignment_rows)
  /\ \A i, j \in DOMAIN st'.assignment_rows :
       i < j => st'.assignment_rows[i].truckNumber <= st'.assignment_rows[j].truckNumber

\* C26: truck numbers are assigned at finalize, start at 1 and grow by one
\* with each finalized truck across all groups, so no two trucks share a
\* number; within a truck the assignments stand in the order their pieces
\* were committed.
C26_TruckNumbering ==
  [][(st' # st) => NumberedInOrder(st') /\ st'.truck_counter >= st.truck_counter
                     /\ CommitOrderKept]_vars

\* Packing is over with three trucks or more, of two groups or more, one of
\* them holding the pieces of two lines.
C26_Witness ==
  /\ pc = "packed"
  /\ st.truck_counter >= 3
  /\ \E i, j \in DOMAIN st.truck_rows :
       st.truck_rows[i].customerName # st.truck_rows[j].customerName
  /\ \E i \in DOMAIN st.truck_rows :
       LET on == OnTruck(st.assignment_rows, i)
       IN Len(on) >= 2 /\ SourceLine(on[1]) # SourceLine(on[2])

\* ------------------------------------------------------------ claim C27
\* The bucket the rule of the claim gives a row, from latestDue and today.
BucketByRule(r) ==
  IF IsNone(r.LatestDue) THEN "NotDue"
  ELSE LET days == Val(r.LatestDue).day - today_utc.day
       IN IF days < 0 THEN "Late"
          ELSE IF days <= 3 THEN "NearDue"
          ELSE "WithinWindow"

\* C27: the priority bucket of a line is Late when latestDue is before today,
\* NearDue when latestDue is 0 to 3 days from today, WithinWindow when it is
\* more than 3 days away and NotDue when the line has no latestDue; and the
\* line is late exactly when its bucket is Late.  Stated of the rows of the
\* sorted frame, which carry both columns.
C27_PriorityBucket ==
  (pc = "groups") =>
    \A i \in DOMAIN df :
      /\ df[i].priorityBucket = BucketByRule(df[i])
      /\ df[i].IsLate <=> (df[i].priorityBucket = "Late")

\* The same with the undated lines left out.
BucketOfDatedLines ==
  (pc = "groups") =>
    \A i \in DOMAIN df :
      /\ ~IsNone(df[i].LatestDue) => df[i].priorityBucket = BucketByRule(df[i])
      /\ df[i].IsLate <=> (df[i].priorityBucket = "Late")

\* ------------------------------------------------------------ claim C28
\* The worst bucket among assignments: Late, else NearDue, else WithinWindow.
WorstBucket(assigns) ==
  IF \E i \in DOMAIN assigns : assigns[i].priorityBucket = "Late" THEN "Late"
  ELSE IF \E i \in DOMAIN assigns : assigns[i].priorityBucket = "NearDue" THEN "NearDue"
  ELSE "WithinWindow"

\* C28: in the load plan returned, every truck's priorityBucket is the worst
\* bucket among the assignments it holds, and its containsLate is true
\* exactly when one of its assignments is late.
C28_TruckBucket ==
  (pc = "done") =>
    \A i \in DOMAIN trucks_df :
      LET on == OnTruck(assigns_df, trucks_df[i].truckNumber)
      IN /\ on # <<>>
         /\ trucks_df[i].priorityBucket = WorstBucket(on)
         /\ trucks_df[i].containsLate <=> \E k \in DOMAIN on : on[k].isLate

\* The plan returned has a truck whose first assignment is near due and
\* which also holds a late assignment.
C28_Witness ==
  /\ pc = "done"
  /\ \E i \in DOMAIN trucks_df :
       LET on == OnTruck(assigns_df, trucks_df[i].truckNumber)
       IN /\ Len(on) >= 2
          /\ on[1].priorityBucket = "NearDue" /\ ~on[1].isLate
          /\ \E k \in DOMAIN on : on[k].isLate /\ on[k].priorityBucket = "Late"

\* ------------------------------------------------------------ claim C29
\* Weight of the assignments wider than 96 inches.
RECURSIVE OverwidthWeightOf(_)
OverwidthWeightOf(assigns) ==
  IF assigns = <<>> THEN 0
  ELSE (IF assigns[1].width > OverwidthInches THEN assigns[1].totalWeight ELSE 0)
         + OverwidthWeightOf(Tail(assigns))

\* C29: for every truck of the load plan returned, percentOverwidth equals
\* (sum of totalWeight of its assignments wider than 96) / (the truck's
\* totalWeight) * 100.  The two fractions are compared cross-multiplied.
C29_PercentOverwidth ==
  (pc = "done") =>
    \A i \in DOMAIN trucks_df :
      LET t == trucks_df[i]
          on == OnTruck(assigns_df, t.truckNumber)
      IN t.percentOverwidth.num * t.totalWeight
           = OverwidthWeightOf(on) * 100 * t.percentOverwidth.den

\* ------------------------------------------- apply_routing_filters, cells
\* The filter on frames that carry the hold columns.  A cell is None (NaN)
\* or Some(value); RPcs arrives numeric (compute_calculated_fields, lines
\* 29-31, has coerced it), the other columns arrive as uploaded text.

\* Series.astype(str) on one cell: NaN reads "nan".
astype_str(cell) == IF IsNone(cell) THEN <<"n", "a", "n">> ELSE Val(cell)

\* The number a text of digits reads.
RECURSIVE DigitsValue(_)
DigitsValue(s) ==
  IF s = <<>> THEN 0
  ELSE 10 * DigitsValue(SubSeq(s, 1, Len(s) - 1))
         + (IndexIn(<<"0", "1", "2", "3", "4", "5", "6", "7", "8", "9">>, s[Len(s)]) - 1)

\* pd.to_numeric(errors="coerce") on one text cell: a whole number with or
\* without a minus sign reads as that number, any other text as NaN.
to_numeric(cell) ==
  IF IsNone(cell) THEN None
  ELSE LET t == Val(cell)
           neg == t # <<>> /\ t[1] = "-"
           body == IF neg THEN Tail(t) ELSE t
       IN IF body # <<>> /\ \A i \in DOMAIN body : body[i] \in DigitChars
          THEN Some(IF neg THEN 0 - DigitsValue(body) ELSE DigitsValue(body))
          ELSE None

\* Step 1 (lines 121-139) on one row.  The BPcs cell written into RPcs is
\* shown as step 4's to_numeric (line 162) leaves it; no step in between
\* reads RPcs.
yes_mask(r) == str_lower(str_strip(astype_str(r.yes_no))) = <<"y", "e", "s">>

transform_yes(r) ==
  IF "yes_no" \in DOMAIN r /\ yes_mask(r)
  THEN [r EXCEPT !.RPcs = IF "BPcs" \in DOMAIN r THEN to_numeric(r.BPcs) ELSE @,
                 !.ReadyWeight = IF "BalanceWeight" \in DOMAIN r
                                 THEN r.BalanceWeight ELSE @]
  ELSE r

\* Steps 2 and 3 (lines 141-157): the masks of the rows dropped.
credit_hold_mask(r) == "Credit" \in DOMAIN r /\ str_strip(astype_str(r.Credit)) = <<"H">>

ship_hold_mask(r) == "ship_hold" \in DOMAIN r /\ str_strip(astype_str(r.ship_hold)) = <<"H">>

\* Step 4 (lines 159-168).
rpcs_invalid_mask(r) == IsNone(r.RPcs) \/ Val(r.RPcs) <= 0

RECURSIVE MapRows(_, _)
MapRows(Op(_), frame) ==
  IF frame = <<>> THEN <<>> ELSE <<Op(frame[1])>> \o MapRows(Op, Tail(frame))

\* The filter with the rows dropped before the balance is substituted.
routing_filters_drop_first(frame) ==
  LET Kept(r) == ~credit_hold_mask(r) /\ ~ship_hold_mask(r) /\ ~rpcs_invalid_mask(r)
  IN MapRows(transform_yes, SelectSeq(frame, Kept))

\* apply_routing_filters (lines 104-175) on such a frame.
apply_routing_filters_df(frame) ==
  LET NoCredit(r) == ~credit_hold_mask(r)
      NoShipHold(r) == ~ship_hold_mask(r)
      Valid(r) == ~rpcs_invalid_mask(r)
  IN IF frame = <<>> THEN frame
     ELSE SelectSeq(SelectSeq(SelectSeq(MapRows(transform_yes, frame), NoCredit),
                              NoShipHold), Valid)

\* Uploaded rows: yes_no, the two holds, and ready / balance pieces.
MaxFilterRows == 2

YesNoCells == {Some(<<"n", "o">>), Some(<<" ", "Y", "e", "s", " ">>), None}
CreditCells == {None, Some(<<" ", "H", " ">>), Some(<<"h">>)}
ShipHoldCells == {Some(<<>>), Some(<<"H">>)}
PiecesCells ==
  { <<Some(2), Some(<<"1", "0">>)>>, <<Some(0), Some(<<"1", "0">>)>>,
    <<Some(2), Some(<<"-", "1">>)>>, <<None, Some(<<"2">>)>>,
    <<Some(2), Some(<<"a", "b", "c">>)>> }

FilterRow(i, y, p) ==
  [Line |-> "L" \o ToString(i), yes_no |-> y, RPcs |-> p[1], BPcs |-> p[2],
   ReadyWeight |-> Some(<<"1", "0", "0", "0">>),
   BalanceWeight |-> Some(<<"5", "0", "0", "0">>)]

HoldRow(i, y, p, c, h) == FilterRow(i, y, p) @@ [Credit |-> c, ship_hold |-> h]

\* Frames of up to MaxFilterRows rows, with or without the hold columns.
FilterSheets ==
  UNION { [1..n -> YesNoCells \X PiecesCells \X CreditCells \X ShipHoldCells]
            : n \in 0..MaxFilterRows }

FrameOf(ks, holds) ==
  [i \in DOMAIN ks |->
     IF holds THEN HoldRow(i, ks[i][1], ks[i][2], ks[i][3], ks[i][4])
     ELSE FilterRow(i, ks[i][1], ks[i][2])]

InitFilter ==
  /\ RouteIdle
  /\ pc = "filter"
  /\ \E ks \in FilterSheets, holds \in BOOLEAN : sheet = FrameOf(ks, holds)
  /\ df = sheet
  /\ groups = <<>>
  /\ g = None
  /\ rows = <<>>
  /\ st = empty_state
  /\ pending_remainders = <<>>
  /\ current_remainders = <<>>
  /\ iteration_count = 0
  /\ trucks_df = <<>>
  /\ assigns_df = <<>>
  /\ fill = idle_fill
  /\ applied = 0
  /\ first_out = None

\* df = apply_routing_filters(df) (main.py, line 301).
ApplyRoutingFilters ==
  /\ pc = "filter"
  /\ df' = apply_routing_filters_df(df)
  /\ pc' = "filtered"
  /\ UNCHANGED <<sheet, packer_vars, trucks_df, assigns_df, fill, applied, first_out>>
  /\ UNCHANGED route_vars

NextFilter == ApplyRoutingFilters

SpecFilter == InitFilter /\ [][NextFilter]_vars

\* ------------------------------------------------------------ claim C30
\* The value of a text cell, trimmed; the number of a pieces cell.
Trimmed(cell) == str_strip(astype_str(cell))

\* The row after substitution: a row flagged yes has its balance pieces and
\* balance weight in place of its ready pieces and ready weight.
Substituted(r) ==
  IF str_lower(Trimmed(r.yes_no)) = <<"y", "e", "s">>
  THEN [r EXCEPT !.RPcs = to_numeric(r.BPcs), !.ReadyWeight = r.BalanceWeight]
  ELSE r

OnHold(r) ==
  \/ "Credit" \in DOMAIN r /\ Trimmed(r.Credit) = <<"H">>
  \/ "ship_hold" \in DOMAIN r /\ Trimmed(r.ship_hold) = <<"H">>

NoPieces(r) == IsNone(r.RPcs) \/ Val(r.RPcs) <= 0

C31_PerPieceWeight ==
  /\ (pc = "groups") =>
       \A i \in DOMAIN df : df[i].WeightPerPiece * df[i].RPcs = df[i].ReadyWeight
  /\ \A i \in DOMAIN AllAssignments(st) :
       LET a == AllAssignments(st)[i]
       IN /\ a.totalWeight = a.piecesOnTransport * a.weightPerPiece
          /\ (~a.isRemainder /\ a.piecesOnTransport = a.totalReadyPieces) =>
               \E k \in DOMAIN df :
                 /\ df[k].SO = a.so /\ df[k].Line = a.line
                 /\ a.totalWeight = df[k].ReadyWeight

\* ------------------------------------------------------------ claim C32
\* The positions of the log at which job `run` sent key k to the provider.
ProviderCallsFor(run, k) ==
  {n \in 1..Len(job.log) :
     job.log[n].run = run /\ job.log[n].ev = "geocode" /\ job.log[n].key = k}

\* The positions of the log at which job `run` queried the cache.
CacheQueries(run) ==
  {n \in 1..Len(job.log) : job.log[n].run = run /\ job.log[n].ev = "lookup"}

JobKeys == {job.addrs[i].normalized : i \in 1..Len(job.addrs)}

\* C32: geocode lookup protocol.  Within one job the cache is queried once
\* for the keys of the upload; a key that missed is sent to the provider at
\* most once and a key found in the cache is not sent at all; and, with an
\* API key configured, every extracted address appears exactly once in the
\* result, as a cache hit, a provider success or a failure.
C32_LookupProtocol ==
  (rpc \in {"geocoding", "no_api_key", "cache_write", "geocode_done"}) =>
    /\ Cardinality(CacheQueries(job.run)) <= 1
    /\ \A k \in JobKeys :
         /\ Cardinality(ProviderCallsFor(job.run, k)) <= 1
         /\ k \in DOMAIN job.cache_map => ProviderCallsFor(job.run, k) = {}
    /\ (rpc = "geocode_done" /\ job.api_key) =>
         \A i \in 1..Len(job.addrs) :
           /\ Cardinality({n \in 1..Len(response.addresses) :
                             response.addresses[n].addr = job.addrs[i]}) = 1
           /\ \A n \in 1..Len(response.addresses) :
                response.addresses[n].addr = job.addrs[i] =>
                  \/ response.addresses[n].source \in {Some("cache"), Some("google")}
                  \/ response.addresses[n].error = Some("GEOCODE_FAILED")

\* The same, of the extracted addresses instead of their keys: each address
\* that missed is sent to the provider once.
OneCallPerAddress ==
  (rpc \in {"cache_write", "geocode_done"} /\ job.api_key) =>
    \A k \in JobKeys :
      Cardinality(ProviderCallsFor(job.run, k))
        = IF k \in DOMAIN job.cache_map THEN 0
          ELSE Cardinality({i \in 1..Len(job.addrs) : job.addrs[i].normalized = k})

\* ------------------------------------------- the worker pool of one job
\* One job in which what the provider answers to an address is fixed before
\* the tasks are submitted (job.oracle), so that two runs of the job differ
\* in the completion order of the tasks only.  The cache may already hold
\* the first address of the upload.
SeqToSet(s) == {s[i] : i \in 1..Len(s)}

InitPool ==
  /\ PlanIdle
  /\ rpc = "geocode_validate"
  /\ distance_cache = <<>>
  /\ response = None
  /\ no_multi_stop = NO_MULTI_STOP_CUSTOMERS
  /\ \E input \in AddressSheets, api_key \in BOOLEAN, dsn \in BOOLEAN, cached \in BOOLEAN :
       LET j == GeoJob(input, api_key, dsn, 1, <<>>)
       IN /\ \E oracle \in [SeqToSet(j.addrs) -> ProviderOutcomes] :
               job = j @@ [oracle |-> oracle]
          /\ address_cache =
               IF cached /\ j.addrs # <<>>
               THEN upsert(<<>>, [normalized |-> j.addrs[1].normalized, lat |-> 30, lng |-> 0 - 95])
               ELSE <<>>

\* geocode_validate, lines 488-529: one future of the pool completes with
\* the provider's answer to its address; the futures complete in any order.
PoolFutureCompletes ==
  /\ rpc = "geocoding"
  /\ \E i \in job.futures :
       LET outcome == job.oracle[job.cache_misses[i]]
           j1 == geocode_result(job, i, outcome)
       IN  /\ job' = [j1 EXCEPT
                        !.futures = @ \ {i},
                        !.log = Append(@, Event(job.run, "geocode",
                                                job.cache_misses[i].normalized,
                                                outcome # None, outcome))]
           /\ rpc' = IF job.futures = {i} THEN "cache_write" ELSE "geocoding"
  /\ UNCHANGED <<address_cache, response, no_multi_stop>>
  /\ UNCHANGED plan_vars
  /\ UNCHANGED distance_cache

NextPool ==
  \/ GeoCacheLookup
  \/ PoolFutureCompletes
  \/ GeoNoApiKey
  \/ GeoCacheWrite

SpecPool == InitPool /\ [][NextPool]_vars

\* ------------------------------------------------------------ claim C33
\* What the job yields whatever the completion order: the result of each
\* address from the cache or from the provider's answer to it, and the
\* record of each address the provider geocoded.
ResultOf(a) ==
  IF a.normalized \in DOMAIN job.cache_map
  THEN Item(a, Some(job.cache_map[a.normalized].latitude),
            Some(job.cache_map[a.normalized].longitude), Some("cache"), None, None)
  ELSE IF job.oracle[a] = None
       THEN Item(a, None, None, None, Some("GEOCODE_FAILED"), None)
       ELSE Item(a, Some(job.oracle[a][1].lat), Some(job.oracle[a][1].lng),
                 Some("google"), None, None)

Missed == {a \in SeqToSet(job.addrs) : a.normalized \notin DOMAIN job.cache_map}

RecordOf(a) ==
  [normalized |-> a.normalized, parts |-> a,
   lat |-> job.oracle[a][1].lat, lng |-> job.oracle[a][1].lng]

\* C33: the worker pool is order-independent.  For every completion order
\* of the geocoding tasks of one job, the set of per-address results, the
\* hit, api-call and failure counts and the set of records upserted into the
\* address cache are those fixed by the cache and the provider's answers.
C33_OrderIndependent ==
  (rpc = "geocode_done" /\ job.api_key) =>
    /\ SeqToSet(response.addresses) = {ResultOf(a) : a \in SeqToSet(job.addrs)}
    /\ response.count = Len(job.addrs)
    /\ response.cache_hits = Len(job.addrs) - Cardinality(Missed)
    /\ response.api_calls = Cardinality({a \in Missed : job.oracle[a] # None})
    /\ response.failures = Cardinality({a \in Missed : job.oracle[a] = None})
    /\ SeqToSet(job.new_geocodes) = {RecordOf(a) : a \in {m \in Missed : job.oracle[m] # None}}
    /\ Len(job.new_geocodes) = response.api_calls

\* Two tasks completed in the reverse of the order they were submitted in,
\* both geocoded, and their records were written.
C33_Witness ==
  /\ rpc = "geocode_done" /\ job.api_key
  /\ Len(job.cache_misses) = 2 /\ Len(job.new_geocodes) = 2
  /\ job.new_geocodes[1].parts = job.cache_misses[2]
  /\ job.new_geocodes[2].parts = job.cache_misses[1]
  /\ job.cache_misses[1].normalized # job.cache_misses[2].normalized
  /\ DOMAIN address_cache = {job.cache_misses[1].normalized, job.cache_misses[2].normalized}

\* ------------------------------------------------------------ claim C34
\* The jobs whose cache lookup found the database unreachable.
LookupFailed(run) == \E e \in EventsOf(run, "lookup") : ~e.ok
WriteAttempted(run) == EventsOf(run, "write") # {}

\* C34: cache unavailability.  When the database cannot be reached (the
\* lookup of the job failed), every address of the job is a miss, the job
\* attempts no cache write, and the request still completes with one entry
\* for every address, each geocoded by the provider, failed at the provider,
\* or noted as lacking an API key.
C34_CacheUnavailable ==
  \A run \in 1..MaxJobs :
    LookupFailed(run) =>
      /\ ~WriteAttempted(run)
      /\ (job.run = run) =>
           /\ job.cache_map = <<>>
           /\ job.cache_hits = 0
           /\ (rpc = "geocode_done") =>
                /\ response.count = Len(job.addrs)
                /\ response.cache_hits = 0
                /\ \A n \in 1..Len(response.addresses) :
                     response.addresses[n].source # Some("cache")

\* The part of C34 that the code keeps: after a failed lookup every address
\* is a miss and the request completes without a cache answer.
MissesWhenCacheDown ==
  \A run \in 1..MaxJobs :
    (LookupFailed(run) /\ job.run = run) =>
      /\ job.cache_map = <<>>
      /\ job.cache_hits = 0
      /\ (rpc = "geocode_done") =>
           /\ response.count = Len(job.addrs)
           /\ response.cache_hits = 0

\* ---- route_optimize_phase2 called again
\* The same file is posted to /route/optimize-phase2 again, after the first
\* request has answered.
P2Replay ==
  /\ rpc \in {"p2_returned", "p2_failed"}
  /\ job.run < MaxJobs
  /\ job' = [P2Job(job.input, job.api_key, job.dsn) EXCEPT !.run = job.run + 1, !.log = job.log]
  /\ response' = None
  /\ rpc' = "route_phase2"
  /\ UNCHANGED <<address_cache, distance_cache, no_multi_stop>>
  /\ UNCHANGED plan_vars

\* The uploads that are posted twice: one or two light lines of two
\* customers at two addresses, with a cache configured.
ReplaySheets ==
  {upload \in RouteSheets :
     /\ upload # <<>>
     /\ \A i \in 1..Len(upload) :
          \E k \in {RouteKinds[1], RouteKinds[3]} : upload[i] = RouteRow(i, k)}
InitReplay ==
  /\ PlanIdle
  /\ rpc = "route_phase2"
  /\ address_cache = <<>>
  /\ distance_cache = <<>>
  /\ \E input \in ReplaySheets, api_key \in BOOLEAN :
       job = P2Job(input, api_key, TRUE)
  /\ response = None
  /\ no_multi_stop = NO_MULTI_STOP_CUSTOMERS

NextReplay ==
  \/ P2Prepare
  \/ P2GeocodeAddress
  \/ P2Matrix
  \/ P2Pack
  \/ P2Solve
  \/ P2Replay

SpecReplay == InitReplay /\ [][NextReplay]_vars

\* ------------------------------------------------------------ claim C35
\* The matrix of the running request has been built.
MatrixBuilt == rpc \in {"p2_pack", "p2_solve", "p2_returned"} /\ job.matrix # None
\* The pairs the request looked up and the ones it missed.
PairsLookedUp == OffDiagonal(Len(job.coords))
FetchedPairs ==
  UNION {e.key : e \in EventsOf(job.run, "distance_fetch")}
HitPairs == PairsLookedUp \ FetchedPairs

\* C35: fetch strategy.  When the provider is asked for the misses of a
\* request, it is asked for the full matrix in one call if the misses are
\* more than half of the pairs that were looked up, and for each missing
\* pair otherwise; a pair-by-pair fetch that succeeded leaves every hit at
\* its cached value.
C35_FetchStrategy ==
  (MatrixBuilt /\ EventsOf(job.run, "distance_fetch") # {}) =>
    /\ job.fetch = (IF 2 * Cardinality(FetchedPairs) > Cardinality(PairsLookedUp)
                    THEN "full" ELSE "pairs")
    /\ (job.fetch = "pairs" /\ job.provider = "google") =>
         \A e \in HitPairs :
           job.matrix[1][e] = distance_cache[distance_key(job.coords, e, "google")]

\* The threshold of the code: the misses against half of n * n, n the
\* number of points, the diagonal counted.
FetchAgainstSquare ==
  (MatrixBuilt /\ EventsOf(job.run, "distance_fetch") # {}) =>
    /\ job.fetch = (IF 2 * Cardinality(FetchedPairs) > Len(job.coords) * Len(job.coords)
                    THEN "full" ELSE "pairs")
    /\ (job.fetch = "pairs" /\ job.provider = "google") =>
         \A e \in HitPairs :
           job.matrix[1][e] = distance_cache[distance_key(job.coords, e, "google")]

\* ------------------------------------------------------------ claim C36
\* The straight-line estimate for every pair of a coordinate list.
haversine_matrix(coords) ==
  [e \in (0..(Len(coords) - 1)) \X (0..(Len(coords) - 1)) |->
     haversine_leg(coords[e[1] + 1], coords[e[2] + 1])]
\* The matrix is the complete answer of one provider: no call failed, or
\* every retried pair was answered.
ProviderAnsweredAll(m, coords) == \E w \in MinutesPerDegree : m = full_matrix(w, coords)
NoZeroBetweenDistinct(m, coords) ==
  \A e \in OffDiagonal(Len(coords)) :
    coords[e[1] + 1] # coords[e[2] + 1] => (m[e].miles > 0 /\ m[e].minutes > 0)

\* C36: distance-provider failure.  When a provider call fails while the
\* matrix of a routing request is built, the matrix handed to the solver is
\* the Haversine estimate for every pair: no pair of distinct points is left
\* at 0 and no provider value is kept.
C36_ProviderFailure ==
  (rpc = "v1_returned" /\ job.matrix # None
     /\ ~ProviderAnsweredAll(job.matrix[1], job.coords[1])) =>
    /\ \A e \in OffDiagonal(Len(job.coords[1])) :
         job.matrix[1][e] = haversine_matrix(job.coords[1])[e]
    /\ NoZeroBetweenDistinct(job.matrix[1], job.coords[1])

\* The same for route_optimize_phase2, whose failed fetch is a
\* distance_fetch event with ok = FALSE.
Phase2WhollyHaversine ==
  (MatrixBuilt /\ \E e \in EventsOf(job.run, "distance_fetch") : ~e.ok) =>
    /\ \A e \in OffDiagonal(Len(job.coords)) :
         job.matrix[1][e] = haversine_matrix(job.coords)[e]
    /\ NoZeroBetweenDistinct(job.matrix[1], job.coords)
\* What route_optimize_phase2 keeps: after a failed fetch the misses are
\* the Haversine estimate and the hits their cached values.
Phase2MissesHaversine ==
  (MatrixBuilt /\ \E e \in EventsOf(job.run, "distance_fetch") : ~e.ok) =>
    /\ job.provider = "haversine"
    /\ \A e \in FetchedPairs : job.matrix[1][e] = haversine_matrix(job.coords)[e]
    /\ \A e \in HitPairs :
         job.matrix[1][e] = distance_cache[distance_key(job.coords, e, "google")]

\* ------------------------------------------------------------ claim C39
\* The first request wrote its misses back for the coordinate list coords
\* and the write committed.
WroteBack(run, coords) ==
  \E e \in EventsOf(run, "distance_write") : e.ok /\ e.key = coords
WroteBackAs(run, coords, provider) ==
  \E e \in EventsOf(run, "distance_write") :
    e.ok /\ e.key = coords /\ e.answer = Some(provider)
\* The replay has built its matrix for the same coordinate list, its
\* lookup having reached the cache.
ReplayOfSameCoords ==
  /\ MatrixBuilt /\ job.run = 2
  /\ \E e \in EventsOf(2, "distance_lookup") : e.ok
\* The replay found every pair in the cache and computed nothing.
AllFromCache ==
  /\ \A e \in EventsOf(2, "distance_lookup") : e.key = PairsLookedUp
  /\ EventsOf(2, "distance_fetch") = {}
  /\ job.fetch = "none" /\ job.provider = "cached"

\* C39: distance write-back and replay.  After a request has written its
\* misses back to the distance cache, a replay with the same coordinate list
\* whose lookup reaches the cache finds every pair i # j there and asks
\* neither the provider nor the Haversine estimate, whether the values
\* written came from the provider or from the estimate.
C39_WriteBackReplay ==
  (ReplayOfSameCoords /\ WroteBack(1, job.coords)) => AllFromCache

\* The replay after a write of provider values.
ReplayAfterProviderWrite ==
  (ReplayOfSameCoords /\ WroteBackAs(1, job.coords, "google")) => AllFromCache

\* ------------------------------------------------------------ claim C37
\* C37: route limits.  Every route that solve_vrp returns reports a total
\* time, the service time of its stops included, of at most the maximum
\* drive time, and a total weight of at most the truck capacity.
C37_RouteLimits ==
  rpc = "solve_vrp_returned" =>
    \A r \in DOMAIN response :
      /\ response[r].total_duration_minutes <= max_drive_time_minutes
      /\ response[r].total_weight <= max_weight_per_truck

\* What the dimensions of the solver bound: the weight of a route, and its
\* travel time from the depot back to the depot without service time.
RouteWithinDimensions ==
  rpc = "solve_vrp_returned" =>
    \A r \in DOMAIN response :
      LET p == [i \in DOMAIN response[r].stop_sequence |-> response[r].stop_sequence[i] + 1]
      IN  /\ response[r].total_weight <= max_weight_per_truck
          /\ legs_total(job.duration_matrix, round_trip_legs(p)) <= max_drive_time_minutes

\* ------------------------------------------------------------ claim C38
\* The stops and the matrices are ready for the call of solve_vrp.
HandedToSolver == rpc = "p2_solve" /\ job.stops # None /\ job.matrix # None
StopPoint(stop) == [lat |-> stop.latitude, lng |-> stop.longitude]

\* C38: matrix/stop index correspondence.  The matrices handed to the
\* solver have a row and a column for the depot and for every stop and no
\* other: number of stops + 1 of each, the depot at index 0, and row and
\* column i + 1 computed from the coordinates of stop i of the stop list.
C38_MatrixStopIndex ==
  HandedToSolver =>
    LET stops == job.stops[1]
    IN  /\ DOMAIN job.matrix[1] = (0..Len(stops)) \X (0..Len(stops))
        /\ Len(job.coords) = Len(stops) + 1
        /\ job.coords[1] = depot_point
        /\ \A i \in 1..Len(stops) : job.coords[i + 1] = StopPoint(stops[i])

\* What the handler keeps: the matrices are square over the depot and the
\* geocoded addresses of the upload, in the order of the addresses.
MatrixOverAddresses ==
  HandedToSolver =>
    /\ DOMAIN job.matrix[1] = (0..Len(job.geocoded_addrs)) \X (0..Len(job.geocoded_addrs))
    /\ Len(job.coords) = Len(job.geocoded_addrs) + 1
    /\ job.coords[1] = depot_point
    /\ \A i \in 1..Len(job.geocoded_addrs) :
         job.coords[i + 1] = [lat |-> job.geocoded_addrs[i].latitude,
                              lng |-> job.geocoded_addrs[i].longitude]

\* =====================================================================
\* Geographic clustering (route_optimizer.py)
\* =====================================================================
\* Defaults of plan_routes and cluster_by_geography (route_optimizer.py,
\* lines 207-211, 362-364, 398) and the numbers of lines 276, 315.
max_stops_per_truck == 20
min_stops_per_truck == 3
cluster_max_drive_time == 720
cluster_service_time == 30
far_from_depot_miles == 500
assumed_mph == 50

\* A stop index of the code is 0-based: index s is stops[s + 1] of the
\* model.  stop_order, lines 246-247: the indices by distance from the
\* depot, ties by index.
closer_to_depot(depot_distances, a, b) ==
  \/ depot_distances[a] < depot_distances[b]
  \/ (depot_distances[a] = depot_distances[b] /\ a < b)
\* The seed of lines 254-259: the first index of stop_order not assigned.
cluster_seed(depot_distances, unassigned) ==
  CHOOSE s \in unassigned :
    \A t \in unassigned \ {s} : closer_to_depot(depot_distances, s, t)

\* estimate_current_time, lines 269-288.
RECURSIVE estimate_between(_, _)
estimate_between(duration_matrix, cluster) ==
  IF Len(cluster) < 2 THEN 0
  ELSE duration_matrix[<<cluster[1], cluster[2]>>]
         + estimate_between(duration_matrix, Tail(cluster))
drive_minutes(miles) == (miles * 60) \div assumed_mph
estimate_current_time(c, cluster) ==
  Len(cluster) * cluster_service_time
    + drive_minutes(c.depot_distances[cluster[1]])
    + estimate_between(c.duration_matrix, cluster)
    + drive_minutes(c.depot_distances[cluster[Len(cluster)]])

\* min(distance_matrix[stop_idx][c] for c in cluster), lines 298-299.
dist_to_cluster(c, stop_idx, cluster) ==
  LET ds == {c.distance_matrix[<<stop_idx, cluster[i]>>] : i \in 1..Len(cluster)}
  IN  CHOOSE d \in ds : \A x \in ds : d <= x
\* The scan `for stop_idx in unassigned` keeping the first strictly smaller
\* distance (lines 320-323, 333-337); a set of small integers is scanned
\* in ascending order.
nearest_of(c, among, cluster) ==
  IF among = {} THEN None
  ELSE Some(CHOOSE s \in among :
              \A t \in among \ {s} :
                \/ dist_to_cluster(c, s, cluster) < dist_to_cluster(c, t, cluster)
                \/ (dist_to_cluster(c, s, cluster) = dist_to_cluster(c, t, cluster) /\ s < t))

\* Lines 296-323: the unassigned stops that pass the weight, time and
\* far-from-depot checks.
valid_candidates(c, cluster, cluster_weight, unassigned) ==
  {s \in unassigned :
     /\ cluster_weight + c.stops[s + 1].weight <= c.max_weight_per_truck
     /\ estimate_current_time(c, cluster) + cluster_service_time
          + c.duration_matrix[<<cluster[Len(cluster)], s>>]
          + drive_minutes(c.depot_distances[s]) <= cluster_max_drive_time
     /\ ~(c.depot_distances[s] > far_from_depot_miles /\ Len(cluster) < min_stops_per_truck)}
\* Lines 328-337: the stops that may be forced into a cluster that is too
\* small: only the weight is checked.
forced_candidates(c, cluster, cluster_weight, unassigned) ==
  IF Len(cluster) < min_stops_per_truck
  THEN {s \in unassigned : cluster_weight + c.stops[s + 1].weight <= c.max_weight_per_truck}
  ELSE {}

\* The inner loop, lines 291-344: the cluster grown from its seed.
RECURSIVE grow_cluster(_, _, _, _)
grow_cluster(c, cluster, cluster_weight, unassigned) ==
  IF unassigned = {} \/ Len(cluster) >= max_stops_per_truck
  THEN [cluster |-> cluster, unassigned |-> unassigned]
  ELSE LET valid   == nearest_of(c, valid_candidates(c, cluster, cluster_weight, unassigned),
                                 cluster)
           nearest == IF valid # None THEN valid
                      ELSE nearest_of(c, forced_candidates(c, cluster, cluster_weight, unassigned),
                                      cluster)
       IN  IF nearest = None THEN [cluster |-> cluster, unassigned |-> unassigned]
           ELSE grow_cluster(c, Append(cluster, nearest[1]),
                             cluster_weight + c.stops[nearest[1] + 1].weight,
                             unassigned \ {nearest[1]})

\* Lines 252-344 of one pass of the outer loop: the seed and its growth.
cluster_grow(c) ==
  LET seed  == cluster_seed(c.depot_distances, c.unassigned)
      grown == grow_cluster(c, <<seed>>, c.stops[seed + 1].weight, c.unassigned \ {seed})
  IN  [c EXCEPT !.cluster = grown.cluster, !.unassigned = grown.unassigned]
\* Lines 346-350: the cluster is kept, or its stops are put back.
cluster_keep(c) ==
  IF Len(c.cluster) >= min_stops_per_truck \/ c.unassigned = {}
  THEN [c EXCEPT !.clusters = Append(@, c.cluster), !.cluster = <<>>]
  ELSE [c EXCEPT !.unassigned = @ \cup SeqToSet(c.cluster), !.cluster = <<>>]

\* plan_routes, lines 376-401: the call of cluster_by_geography, the
\* matrices cut down to the stops and the depot distances taken from row 0.
cluster_call(stops, distance_matrix, duration_matrix, capacity) ==
  LET n == Len(stops)
  IN  [kind |-> "cluster_by_geography", stops |-> stops,
       distance_matrix |-> [e \in (0..(n - 1)) \X (0..(n - 1)) |->
                              distance_matrix[<<e[1] + 1, e[2] + 1>>]],
       duration_matrix |-> [e \in (0..(n - 1)) \X (0..(n - 1)) |->
                              duration_matrix[<<e[1] + 1, e[2] + 1>>]],
       depot_distances |-> [i \in 0..(n - 1) |-> distance_matrix[<<0, i + 1>>]],
       max_weight_per_truck |-> capacity,
       unassigned |-> 0..(n - 1), clusters |-> <<>>, cluster |-> <<>>]

\* Up to MaxClusterStops stops, light or heavier than half a truck; a stop
\* near the depot or more than 500 miles away; stops an hour or nearly seven
\* apart, at a mile a minute.
MaxClusterStops == 3
ClusterWeights == {10000, 30000}
DepotMiles == {50, 600}
ClusterStopLists ==
  UNION {{[i \in 1..n |->
             Stop("C" \o ToString(i), "City" \o ToString(i), "TX", 30 + i, 0 - 97,
                  w[i], 1, "C" \o ToString(i), "1 lines")] :
            w \in [1..n -> ClusterWeights]} : n \in 0..MaxClusterStops}
ClusterMatrices(n) ==
  {[e \in Nodes(n) \X Nodes(n) |->
      IF e[1] = e[2] THEN 0
      ELSE IF e[1] = 0 THEN d[e[2]]
      ELSE IF e[2] = 0 THEN d[e[1]]
      ELSE IF e[1] < e[2] THEN m[<<e[1], e[2]>>]
      ELSE m[<<e[2], e[1]>>]] :
     d \in [1..n -> DepotMiles],
     m \in [{e \in (1..n) \X (1..n) : e[1] < e[2]} -> LegMinutes \ {45, 335}]}

InitCluster ==
  /\ PlanIdle
  /\ rpc = "clustering"
  /\ address_cache = <<>>
  /\ distance_cache = <<>>
  /\ \E stops \in ClusterStopLists :
       \E matrix \in ClusterMatrices(Len(stops)) :
         job = cluster_call(stops, matrix, matrix, max_weight_per_truck)
  /\ response = None
  /\ no_multi_stop = NO_MULTI_STOP_CUSTOMERS

\* cluster_by_geography, lines 252-344: a pass of `while unassigned`
\* picks its seed and grows the cluster.
ClusterGrow ==
  /\ rpc = "clustering"
  /\ job.unassigned # {}
  /\ job' = cluster_grow(job)
  /\ rpc' = "cluster_grown"
  /\ UNCHANGED <<address_cache, distance_cache, response, no_multi_stop>>
  /\ UNCHANGED plan_vars

\* cluster_by_geography, lines 346-350: the pass ends.
ClusterKeep ==
  /\ rpc = "cluster_grown"
  /\ job' = cluster_keep(job)
  /\ rpc' = "clustering"
  /\ UNCHANGED <<address_cache, distance_cache, response, no_multi_stop>>
  /\ UNCHANGED plan_vars

\* cluster_by_geography, lines 240-242 and 352: the loop is over.
ClusterReturn ==
  /\ rpc = "clustering"
  /\ job.unassigned = {}
  /\ response' = job.clusters
  /\ rpc' = "cluster_returned"
  /\ UNCHANGED <<address_cache, distance_cache, job, no_multi_stop>>
  /\ UNCHANGED plan_vars

NextCluster ==
  \/ ClusterGrow
  \/ ClusterKeep
  \/ ClusterReturn

\* The function is one thread that runs on: its next step is taken.
SpecCluster == InitCluster /\ [][NextCluster]_vars /\ WF_vars(NextCluster)

\* ------------------------------------------------------------ claim C40
\* The clusters returned hold every stop index exactly once.
ClustersPartition ==
  rpc = "cluster_returned" =>
    /\ UNION {SeqToSet(response[k]) : k \in DOMAIN response} = 0..(Len(job.stops) - 1)
    /\ \A k \in DOMAIN response, l \in DOMAIN response :
         \A i \in DOMAIN response[k], j \in DOMAIN response[l] :
           response[k][i] = response[l][j] => (k = l /\ i = j)

\* C40: cluster_by_geography terminates for every list of stops and its
\* clusters partition the stop indices, also when a cluster cannot reach
\* min_stops_per_truck because every stop left would exceed the weight
\* limit.
C40_ClusterTerminates ==
  <>(rpc = "cluster_returned" /\ ClustersPartition)

\* A pass is about to put its cluster back: the cluster is too small and
\* no stop left fits its weight.
PassPutsBack ==
  /\ rpc = "cluster_grown"
  /\ Len(job.cluster) < min_stops_per_truck
  /\ job.unassigned # {}
  /\ \A s \in job.unassigned :
       SumSeq([i \in DOMAIN job.cluster |-> job.stops[job.cluster[i] + 1].weight])
         + job.stops[s + 1].weight > job.max_weight_per_truck
\* The variant of the loop: a pass that ends leaves fewer stops unassigned
\* than it found.
PassAssigns ==
  [][ClusterKeep => Cardinality(job'.unassigned)
                      < Cardinality(job.unassigned) + Len(job.cluster)]_vars

====
